---- MODULE Spec2Model ----
(***************************************************************************)
(* A model of the synchronisation, scoring and ranking engine of           *)
(* select_start_bot2: the Award store with its scorer and manual awards    *)
(* (services/awardService.js), the aggregations read from it               *)
(* (commands/leaderboard.js), the poll scheduler (services/scheduler.js)   *)
(* and the forceupdate command (commands/admin/forceUpdate.js).            *)
(*                                                                         *)
(* Four specifications share the module:                                   *)
(*   Spec       the Award store written by the scorer and manual awards    *)
(*   SpecRead   the aggregations and leaderboards read from an Award store *)
(*   SpecPoll   the scheduler's achievementCheck trigger and runJobNow     *)
(*   SpecForce  the forceupdate command against statsUpdateService         *)
(***************************************************************************)
EXTENDS Integers, Sequences, FiniteSets, TLC

VARIABLES
    awards,             \* the Award collection, in insertion order
    announcementQueue,  \* achievementService.announcementQueue
    nextId,             \* the store's next _id
    aggOut,             \* reply of the latest read of the store
    aggPrev,            \* reply of the same read made just before it, if any
    jobScheduled,       \* node-cron status of the achievementCheck job
    isChecking,         \* achievementService's single-flight flag
    cyclesInFlight,     \* executions of checkAchievements past the guard, not yet ended
    cycleOwner,         \* who called the checkAchievements in flight
    triggersFired,      \* calls of checkAchievements (cron ticks and runJobNow)
    cyclesStarted,      \* poll cycles started
    droppedTriggers,    \* calls of checkAchievements dropped by the guard
    runJobResult,       \* what the latest runJobNow returned
    isUpdating,         \* statsUpdateService.isUpdating
    updatesInFlight,    \* executions of statsUpdateService.start() past its guard
    updateOwner,        \* the forceupdate interaction awaiting the start() in flight, else 0
    pcForce,            \* position of each forceupdate invocation
    originalIsUpdating, \* each invocation's local of forceUpdate.js line 31
    forceReply,         \* each invocation's latest editReply
    microtasks,         \* continuations queued behind the running job
    forceCalls,         \* forceupdate invocations made so far
    gameFound,          \* whether Game.findOne finds the current monthly game
    initialized,        \* Scheduler.initialized
    startedJobs,        \* the jobs whose cron task is started
    activeUsers,        \* achievementService.activeUsers
    lastUserChecks,     \* achievementService.lastUserChecks: the users with an entry
    lastActiveUpdate,   \* achievementService.lastActiveUpdate: "null" or "set"
    handlers,           \* the handler invocations in progress, by invocation slot
    lastFired,          \* the handler the latest job started, and what it found
    lastRead,           \* the read of activeUsers the latest job made, if any
    lastEnded,          \* the handler invocation the latest job ended, if any
    calls,              \* the calls of the scheduler's methods suspended at an await
    lastCall            \* the call that returned or threw in the latest job, if any

awardVars == <<awards, announcementQueue, nextId>>
readVars  == <<aggOut, aggPrev, gameFound>>
pollVars  == <<jobScheduled, isChecking, cyclesInFlight, cycleOwner, triggersFired,
               cyclesStarted, droppedTriggers, runJobResult>>
forceVars == <<isUpdating, updatesInFlight, updateOwner, pcForce,
               originalIsUpdating, forceReply, microtasks, forceCalls>>
maintVars == <<initialized, startedJobs, activeUsers, lastUserChecks, lastActiveUpdate,
               handlers, lastFired, lastRead, lastEnded>>
callVars  == <<calls, lastCall>>
vars == <<awardVars, readVars, pollVars, forceVars, maintVars, callVars>>

(***************************************************************************)
(* Bounds of the model.                                                    *)
(***************************************************************************)
MaxManual == 2
MaxQueue == 2
MaxId == 2
MaxTriggers == 4
MaxForceCalls == 3
MaxAwards == 3
MaxPollTicks == 2
MaxUpdateRuns == 1

(***************************************************************************)
(* The clock: new Date() of the run.                                       *)
(***************************************************************************)
CurYear == 2025
CurMonth == 3

(***************************************************************************)
(* enums/AwardType: the ordered tiers and the separate MANUAL kind.        *)
(***************************************************************************)
NONE == 0
PARTICIPATION == 1
BEATEN == 2
MASTERED == 3
MANUAL == 4
Tiers == {NONE, PARTICIPATION, BEATEN, MASTERED}

(***************************************************************************)
(* Usernames as typed by callers, and String.prototype.toLowerCase.        *)
(***************************************************************************)
Usernames == {"Amy", "amy", "BOB"}

toLowerCase(s) ==
    CASE s = "Amy" -> "amy"
      [] s = "BOB" -> "bob"
      [] s = "Cat" -> "cat"
      [] OTHER -> s

\* usernameUtils.getCanonicalUsername: the provider's spelling of the name
getCanonicalUsername(s) ==
    CASE toLowerCase(s) = "amy" -> "Amy"
      [] toLowerCase(s) = "bob" -> "BOB"
      [] OTHER -> s

(***************************************************************************)
(* The Game collection: the challenges of the current month.               *)
(***************************************************************************)
MonthlyGameId == "g1"
Games ==
    { [gameId |-> "g1", month |-> CurMonth, year |-> CurYear, type |-> "MONTHLY"],
      [gameId |-> "g2", month |-> CurMonth, year |-> CurYear, type |-> "SHADOW"] }

\* awards.participation / beaten / mastered of a record at a tier: a mastered
\* game also counts as beaten and as participated
TierFlags(tier) ==
    [participation |-> tier >= PARTICIPATION,
     beaten |-> tier >= BEATEN,
     mastered |-> tier >= MASTERED]

\* the awards sub-document of a record that never set it
NoFlags == [participation |-> FALSE, beaten |-> FALSE, mastered |-> FALSE]

\* metadata: null of a record
NoMetadata == [type |-> "none", placement |-> "", month |-> ""]

\* new Award({...}): one document of the collection
AwardDoc(id, user, gameId, month, year, tier, flags, count, total, meta) ==
    [id |-> id, raUsername |-> user, gameId |-> gameId, month |-> month,
     year |-> year, award |-> tier, awards |-> flags,
     achievementCount |-> count, totalAchievements |-> total, metadata |-> meta]

\* no aggregation result at hand
NoResult == [kind |-> "none", user |-> "", value |-> <<>>]

\* the calls of the scheduler's methods that may be suspended at once
CallSlots == {1, 2}

\* the Check Cache, the ACTIVE set and lastActiveUpdate of a service nobody has used
NoService == [checks |-> {}, active |-> {}, lastUpdate |-> "null"]

\* no call suspended in a slot
NoPending == [op |-> "none", arg |-> "", pc |-> "none", before |-> NoService,
              left |-> NoService]

\* a job in which no call returned or threw
NoCall == [op |-> "none", arg |-> "", id |-> 0, threw |-> FALSE, returned |-> "none",
           failed |-> "none", announced |-> FALSE, awaited |-> "none",
           before |-> NoService, undisturbed |-> FALSE]

\* Award.find(filter): the matching documents in collection order
Find(store, Match(_)) == SelectSeq(store, Match)

\* Award.findOne(filter): the first matching document, or the empty list
FindOne(store, Match(_)) ==
    LET hits == SelectSeq(store, Match)
    IN  IF hits = <<>> THEN <<>> ELSE <<hits[1]>>


(***************************************************************************)
(* services/awardService.js                                                *)
(***************************************************************************)

\* hasAward looking the user up as typed, without toLowerCase
hasAward_asTyped(store, username, gameId, month, year) ==
    FindOne(store, LAMBDA a : /\ a.raUsername = username
                              /\ a.gameId = gameId
                              /\ a.month = month
                              /\ a.year = year) # <<>>

\* AwardService.hasAward
hasAward(store, username, gameId, month, year) ==
    FindOne(store, LAMBDA a : /\ a.raUsername = toLowerCase(username)
                              /\ a.gameId = gameId
                              /\ a.month = month
                              /\ a.year = year) # <<>>

\* getHighestAward looking the user up as typed, without toLowerCase
getHighestAward_asTyped(store, username, gameId, month, year) ==
    LET award == FindOne(store, LAMBDA a : /\ a.raUsername = username
                                           /\ a.gameId = gameId
                                           /\ a.month = month
                                           /\ a.year = year)
    IN  IF award # <<>> THEN award[1].award ELSE NONE

\* AwardService.getHighestAward
getHighestAward(store, username, gameId, month, year) ==
    LET award == FindOne(store, LAMBDA a : /\ a.raUsername = toLowerCase(username)
                                           /\ a.gameId = gameId
                                           /\ a.month = month
                                           /\ a.year = year)
    IN  IF award # <<>> THEN award[1].award ELSE NONE

\* the position of the document findOne returns for a key (0 when there is none)
KeyIndex(store, user, gameId, month, year) ==
    LET hits == { i \in 1..Len(store) : /\ store[i].raUsername = user
                                        /\ store[i].gameId = gameId
                                        /\ store[i].month = month
                                        /\ store[i].year = year }
    IN  IF hits = {} THEN 0 ELSE CHOOSE i \in hits : \A j \in hits : i <= j

\* What one progress observation reports for a (user, game, period)
ProgressCount(tier) ==
    CASE tier = NONE -> 0
      [] tier = PARTICIPATION -> 3
      [] OTHER -> 5
ProgressInputs == { [tier |-> t, count |-> ProgressCount(t)] : t \in Tiers }

\* The tier the scorer stores: raised only when the computed one is strictly greater
StoredTierAfter(stored, computed) ==
    IF computed > stored THEN computed ELSE stored

\* Scorer.apply for one (user, game, period): upsert the Award, announce a raise
ScorerApply(username, game, obs) ==
    LET user   == toLowerCase(username)
        stored == getHighestAward(awards, username, game.gameId, game.month, game.year)
        exists == hasAward(awards, username, game.gameId, game.month, game.year)
        k      == KeyIndex(awards, user, game.gameId, game.month, game.year)
        tier   == StoredTierAfter(stored, obs.tier)
        raised == obs.tier > stored
    IN  /\ raised => Len(announcementQueue) < MaxQueue
        /\ ~exists => nextId <= MaxId
        /\ awards' =
             IF exists
             THEN [awards EXCEPT ![k] = [@ EXCEPT !.award = tier,
                                                  !.awards = TierFlags(tier),
                                                  !.achievementCount = obs.count]]
             ELSE Append(awards, AwardDoc(nextId, user, game.gameId, game.month,
                                          game.year, tier, TierFlags(tier), obs.count,
                                          0, NoMetadata))
        /\ nextId' = IF exists THEN nextId ELSE nextId + 1
        /\ announcementQueue' =
             IF raised
             THEN Append(announcementQueue,
                         [user |-> user, gameId |-> game.gameId,
                          month |-> game.month, year |-> game.year,
                          oldTier |-> stored, newTier |-> obs.tier])
             ELSE announcementQueue
        /\ lastCall' = NoCall
        /\ UNCHANGED <<readVars, pollVars, forceVars, maintVars, calls>>

\* addManualAward as its caller sees it: the award returned, or the error of the
\* lookup, the save or the announcement rethrown by the catch; the announcement is
\* out when announcePointsAward has resolved
ManualAwardCall(outcome) ==
    [NoCall EXCEPT !.op = "addManualAward",
                   !.threw = (outcome # "ok"),
                   !.returned = IF outcome = "ok" THEN "award" ELSE "none",
                   !.failed = IF outcome = "ok" THEN "none" ELSE outcome,
                   !.announced = (outcome = "ok")]

\* the manual documents of the store
ManualCount(store) ==
    Len(SelectSeq(store, LAMBDA a : a.gameId = "manual"))

\* addManualAward adding the points to the user's manual award when there is one
addManualAward_merging(username, points, meta, outcome) ==
    LET canonicalUsername == getCanonicalUsername(username)
        normalizedUsername == toLowerCase(canonicalUsername)
        award == AwardDoc(nextId, normalizedUsername, "manual", CurMonth, CurYear,
                          MANUAL, NoFlags, 0, points, meta)
        saved == outcome \in {"ok", "announceFails"}
        hits == { i \in 1..Len(awards) : /\ awards[i].gameId = "manual"
                                         /\ awards[i].raUsername = normalizedUsername }
        k == CHOOSE i \in hits : TRUE
    IN  /\ saved => (nextId <= MaxId /\ ManualCount(awards) < MaxManual)
        /\ awards' = IF ~saved THEN awards
                     ELSE IF hits = {} THEN Append(awards, award)
                     ELSE [awards EXCEPT ![k].totalAchievements = @ + points]
        /\ nextId' = IF saved /\ hits = {} THEN nextId + 1 ELSE nextId
        /\ lastCall' = ManualAwardCall(outcome)
        /\ UNCHANGED <<announcementQueue, readVars, pollVars, forceVars, maintVars, calls>>

\* AwardService.addManualAward; outcome names the call that throws, if any
addManualAward(username, points, meta, outcome) ==
    LET canonicalUsername == getCanonicalUsername(username)
        normalizedUsername == toLowerCase(canonicalUsername)
        award == AwardDoc(nextId, normalizedUsername, "manual", CurMonth, CurYear,
                          MANUAL, NoFlags, 0, points, meta)
        saved == outcome \in {"ok", "announceFails"}
    IN  /\ saved => (nextId <= MaxId /\ ManualCount(awards) < MaxManual)
        /\ awards' = IF saved THEN Append(awards, award) ELSE awards
        /\ nextId' = IF saved THEN nextId + 1 ELSE nextId
        /\ lastCall' = ManualAwardCall(outcome)
        /\ UNCHANGED <<announcementQueue, readVars, pollVars, forceVars, maintVars, calls>>

ManualOutcomes == {"ok", "lookupFails", "saveFails", "announceFails"}
ManualPoints == {2}

\* AwardService.addPlacementAward: placementMap
Placements == {"first", "fourth"}
placementPoints(placement) ==
    CASE placement = "first" -> 5
      [] placement = "second" -> 3
      [] placement = "third" -> 2
      [] OTHER -> 0

\* AwardService.addPlacementAward
addPlacementAward(username, placement, outcome) ==
    IF placementPoints(placement) = 0
    THEN /\ lastCall' = [NoCall EXCEPT !.op = "addPlacementAward", !.threw = TRUE,
                                       !.failed = "Invalid placement"]
         /\ UNCHANGED <<awardVars, readVars, pollVars, forceVars, maintVars, calls>>
    ELSE addManualAward(username, placementPoints(placement),
                        [type |-> "placement", placement |-> placement,
                         month |-> "March"], outcome)

\* removeManualAward deleting the record of the id whatever its gameId
removeManualAward_anyAward(awardId) ==
    LET hits == { i \in 1..Len(awards) : awards[i].id = awardId }
        k    == CHOOSE i \in hits : TRUE
    IN  IF hits = {}
        THEN /\ lastCall' = [NoCall EXCEPT
                                !.op = "removeManualAward", !.id = awardId,
                                !.threw = TRUE,
                                !.failed = "Invalid award ID or not a manual award"]
             /\ UNCHANGED <<awardVars, readVars, pollVars, forceVars, maintVars, calls>>
        ELSE /\ awards' = [i \in 1..(Len(awards) - 1) |->
                              IF i < k THEN awards[i] ELSE awards[i + 1]]
             /\ lastCall' = [NoCall EXCEPT !.op = "removeManualAward", !.id = awardId,
                                           !.returned = "true"]
             /\ UNCHANGED <<announcementQueue, nextId, readVars, pollVars, forceVars,
                            maintVars, calls>>

\* AwardService.removeManualAward
removeManualAward(awardId) ==
    LET hits == { i \in 1..Len(awards) : awards[i].id = awardId }
        k    == CHOOSE i \in hits : TRUE
    IN  IF hits = {} \/ awards[k].gameId # "manual"
        THEN /\ lastCall' = [NoCall EXCEPT
                                !.op = "removeManualAward", !.id = awardId,
                                !.threw = TRUE,
                                !.failed = "Invalid award ID or not a manual award"]
             /\ UNCHANGED <<awardVars, readVars, pollVars, forceVars, maintVars, calls>>
        ELSE /\ awards' = [i \in 1..(Len(awards) - 1) |->
                              IF i < k THEN awards[i] ELSE awards[i + 1]]
             /\ lastCall' = [NoCall EXCEPT !.op = "removeManualAward", !.id = awardId,
                                           !.returned = "true"]
             /\ UNCHANGED <<announcementQueue, nextId, readVars, pollVars, forceVars,
                            maintVars, calls>>


\* the points object calculateTotalPoints starts from
ZeroPoints ==
    [total |-> 0, challenge |-> 0, community |-> 0,
     breakdown |-> [mastered |-> 0, beaten |-> 0, participation |-> 0, manual |-> 0]]

\* CreditTier crediting a beaten game with 3 points
CreditTier_beatenThree(points, tier) ==
    IF tier >= MASTERED
    THEN [points EXCEPT !.challenge = @ + 7, !.breakdown.mastered = @ + 1]
    ELSE IF tier >= BEATEN
    THEN [points EXCEPT !.challenge = @ + 3, !.breakdown.beaten = @ + 1]
    ELSE IF tier >= PARTICIPATION
    THEN [points EXCEPT !.challenge = @ + 1, !.breakdown.participation = @ + 1]
    ELSE points

\* calculateTotalPoints: what one unprocessed game award adds
CreditTier(points, tier) ==
    IF tier >= MASTERED
    THEN [points EXCEPT !.challenge = @ + 7, !.breakdown.mastered = @ + 1]
    ELSE IF tier >= BEATEN
    THEN [points EXCEPT !.challenge = @ + 4, !.breakdown.beaten = @ + 1]
    ELSE IF tier >= PARTICIPATION
    THEN [points EXCEPT !.challenge = @ + 1, !.breakdown.participation = @ + 1]
    ELSE points

\* calculateTotalPoints: the loop over the user's awards of the year
RECURSIVE TotalPointsLoop(_, _, _, _)
TotalPointsLoop(list, i, points, processedGames) ==
    IF i > Len(list)
    THEN points
    ELSE LET award == list[i]
             gameKey == <<award.gameId, award.month>>
         IN  IF award.gameId = "manual"
             THEN TotalPointsLoop(list, i + 1,
                      [points EXCEPT !.community = @ + award.totalAchievements,
                                     !.total = @ + award.totalAchievements,
                                     !.breakdown.manual = @ + award.totalAchievements],
                      processedGames)
             ELSE IF gameKey \in processedGames
             THEN TotalPointsLoop(list, i + 1, points, processedGames)
             ELSE TotalPointsLoop(list, i + 1, CreditTier(points, award.award),
                                  processedGames \cup {gameKey})

\* calculateTotalPoints keeping its points object from one call to the next
calculateTotalPoints_keptPoints(store, username) ==
    LET normalizedUsername == toLowerCase(username)
        found == Find(store, LAMBDA a : /\ a.raUsername = normalizedUsername
                                        /\ a.year = CurYear)
        before == IF aggOut.kind = "calculateTotalPoints" THEN aggOut.value ELSE ZeroPoints
        points == TotalPointsLoop(found, 1, before, {})
    IN  [points EXCEPT !.total = points.challenge + points.community]

\* AwardService.calculateTotalPoints
calculateTotalPoints(store, username) ==
    LET normalizedUsername == toLowerCase(username)
        found == Find(store, LAMBDA a : /\ a.raUsername = normalizedUsername
                                        /\ a.year = CurYear)
        points == TotalPointsLoop(found, 1, ZeroPoints, {})
    IN  [points EXCEPT !.total = points.challenge + points.community]

\* the stats object getYearlyStats starts from
ZeroStats ==
    [mastered |-> 0, beaten |-> 0, participation |-> 0, manualPoints |-> 0,
     totalPoints |-> 0, monthlyPlacements |-> <<>>]

\* getYearlyStats: what one unprocessed game award adds
CountTier(stats, tier) ==
    IF tier >= MASTERED
    THEN [stats EXCEPT !.mastered = @ + 1]
    ELSE IF tier >= BEATEN
    THEN [stats EXCEPT !.beaten = @ + 1]
    ELSE IF tier >= PARTICIPATION
    THEN [stats EXCEPT !.participation = @ + 1]
    ELSE stats

\* getYearlyStats: the loop over the user's awards of the year
RECURSIVE YearlyStatsLoop(_, _, _, _)
YearlyStatsLoop(list, i, stats, processedGames) ==
    IF i > Len(list)
    THEN stats
    ELSE LET award == list[i]
             gameKey == <<award.gameId, award.month>>
             withPoints == [stats EXCEPT !.manualPoints = @ + award.totalAchievements]
         IN  IF award.gameId = "manual"
             THEN YearlyStatsLoop(list, i + 1,
                      IF award.metadata.type = "placement"
                      THEN [withPoints EXCEPT !.monthlyPlacements =
                               Append(@, [month |-> award.metadata.month,
                                          placement |-> award.metadata.placement,
                                          points |-> award.totalAchievements])]
                      ELSE withPoints,
                      processedGames)
             ELSE IF gameKey \in processedGames
             THEN YearlyStatsLoop(list, i + 1, stats, processedGames)
             ELSE YearlyStatsLoop(list, i + 1, CountTier(stats, award.award),
                                  processedGames \cup {gameKey})

\* AwardService.getYearlyStats
getYearlyStats(store, username) ==
    LET normalizedUsername == toLowerCase(username)
        found == Find(store, LAMBDA a : /\ a.raUsername = normalizedUsername
                                        /\ a.year = CurYear)
        stats == YearlyStatsLoop(found, 1, ZeroStats, {})
    IN  [stats EXCEPT !.totalPoints = (stats.mastered * 7) + (stats.beaten * 4)
                                      + stats.participation + stats.manualPoints]


(***************************************************************************)
(* commands/leaderboard.js                                                 *)
(***************************************************************************)

\* calculatePoints adding 1, 4 and 7 for the three flags
calculatePoints_perFlagTotals(flags) ==
    (IF flags.participation THEN 1 ELSE 0)
    + (IF flags.beaten THEN 4 ELSE 0)
    + (IF flags.mastered THEN 7 ELSE 0)

\* calculatePoints
calculatePoints(flags) ==
    (IF flags.participation THEN 1 ELSE 0)
    + (IF flags.beaten THEN 3 ELSE 0)
    + (IF flags.mastered THEN 3 ELSE 0)

\* Array.prototype.sort((a, b) => b.key - a.key): the stable descending order
\* of the positions of a list of keys
SortDescOrder(keys) ==
    LET n == Len(keys)
        place(i) == 1 + Cardinality({ j \in 1..n : keys[j] > keys[i] })
                      + Cardinality({ j \in 1..(i - 1) : keys[j] = keys[i] })
    IN  SubSeq([p \in 1..n |-> CHOOSE i \in 1..n : place(i) = p], 1, n)

\* the rank loop numbering the distinct scores 1, 2, 3, ... (dense ranking)
RECURSIVE MonthlyRankLoop_dense(_, _, _, _, _)
MonthlyRankLoop_dense(sortedAwards, i, currentRank, currentScore, increment) ==
    IF i > Len(sortedAwards)
    THEN <<>>
    ELSE IF sortedAwards[i].achievementCount # currentScore
    THEN <<currentRank + increment>>
         \o MonthlyRankLoop_dense(sortedAwards, i + 1, currentRank + increment,
                                  sortedAwards[i].achievementCount, 1)
    ELSE <<currentRank>>
         \o MonthlyRankLoop_dense(sortedAwards, i + 1, currentRank, currentScore, 1)

\* getMonthlyLeaderboard: the forEach that assigns award.rank
RECURSIVE MonthlyRankLoop(_, _, _, _, _)
MonthlyRankLoop(sortedAwards, i, currentRank, currentScore, increment) ==
    IF i > Len(sortedAwards)
    THEN <<>>
    ELSE IF sortedAwards[i].achievementCount # currentScore
    THEN <<currentRank + increment>>
         \o MonthlyRankLoop(sortedAwards, i + 1, currentRank + increment,
                            sortedAwards[i].achievementCount, 1)
    ELSE <<currentRank>>
         \o MonthlyRankLoop(sortedAwards, i + 1, currentRank, currentScore,
                            increment + 1)

\* sortedAwards.slice(0, 10) and sortedAwards.slice(10)
TopTenSize == 10
SliceTo(list, end) ==
    SubSeq(list, 1, IF Len(list) < end THEN Len(list) ELSE end)
\* slice(start + 1): the rest without its first entry
SliceFrom_skipsOne(list, start) == SubSeq(list, start + 2, Len(list))
SliceFrom(list, start) == SubSeq(list, start + 1, Len(list))

\* getMonthlyLeaderboard
getMonthlyLeaderboard(store, monthlyGameFound) ==
    IF ~monthlyGameFound
    THEN [error |-> TRUE, game |-> "", topTen |-> <<>>, others |-> <<>>]
    ELSE LET found == Find(store, LAMBDA a : /\ a.gameId = MonthlyGameId
                                             /\ a.month = CurMonth
                                             /\ a.year = CurYear
                                             /\ a.achievementCount > 0)
             order == SortDescOrder([i \in 1..Len(found) |-> found[i].achievementCount])
             sortedAwards == SubSeq([p \in 1..Len(found) |-> found[order[p]]],
                                    1, Len(found))
             ranks == MonthlyRankLoop(sortedAwards, 1, 1, -1, 0)
             ranked == SubSeq([p \in 1..Len(found) |->
                                  [award |-> sortedAwards[p], rank |-> ranks[p]]],
                              1, Len(found))
         IN  [error |-> FALSE, game |-> MonthlyGameId,
              topTen |-> SliceTo(ranked, TopTenSize),
              others |-> SliceFrom(ranked, TopTenSize)]

\* getYearlyLeaderboard: the position of a key in userPoints (0 when absent)
UserSlot(userPoints, username) ==
    LET hits == { i \in 1..Len(userPoints) : userPoints[i].key = username }
    IN  IF hits = {} THEN 0 ELSE CHOOSE i \in hits : TRUE

\* the loop keying userPoints by raUsername as stored, without toLowerCase
RECURSIVE UserPointsLoop_asStored(_, _, _)
UserPointsLoop_asStored(list, i, userPoints) ==
    IF i > Len(list)
    THEN userPoints
    ELSE LET award == list[i]
             username == award.raUsername
             withUser == IF UserSlot(userPoints, username) = 0
                         THEN Append(userPoints,
                                     [key |-> username, username |-> award.raUsername,
                                      totalPoints |-> 0, participations |-> 0,
                                      beaten |-> 0, mastered |-> 0])
                         ELSE userPoints
             k == UserSlot(withUser, username)
             points == calculatePoints(award.awards)
             counted ==
                 IF points > 0
                 THEN [withUser EXCEPT ![k] =
                         [@ EXCEPT !.totalPoints = @ + points,
                                   !.participations =
                                       @ + (IF award.awards.participation THEN 1 ELSE 0),
                                   !.beaten = @ + (IF award.awards.beaten THEN 1 ELSE 0),
                                   !.mastered = @ + (IF award.awards.mastered THEN 1 ELSE 0)]]
                 ELSE withUser
         IN  UserPointsLoop_asStored(list, i + 1, counted)

\* getYearlyLeaderboard: the loop that fills userPoints, kept in key insertion order
RECURSIVE UserPointsLoop(_, _, _)
UserPointsLoop(list, i, userPoints) ==
    IF i > Len(list)
    THEN userPoints
    ELSE LET award == list[i]
             username == toLowerCase(award.raUsername)
             withUser == IF UserSlot(userPoints, username) = 0
                         THEN Append(userPoints,
                                     [key |-> username, username |-> award.raUsername,
                                      totalPoints |-> 0, participations |-> 0,
                                      beaten |-> 0, mastered |-> 0])
                         ELSE userPoints
             k == UserSlot(withUser, username)
             points == calculatePoints(award.awards)
             counted ==
                 IF points > 0
                 THEN [withUser EXCEPT ![k] =
                         [@ EXCEPT !.totalPoints = @ + points,
                                   !.participations =
                                       @ + (IF award.awards.participation THEN 1 ELSE 0),
                                   !.beaten = @ + (IF award.awards.beaten THEN 1 ELSE 0),
                                   !.mastered = @ + (IF award.awards.mastered THEN 1 ELSE 0)]]
                 ELSE withUser
         IN  UserPointsLoop(list, i + 1, counted)

\* the array index a property key spells, or -1: a key that is the canonical decimal
\* spelling of an integer below 2^32 - 1
ArrayIndex(key) ==
    CASE key = "7" -> 7
      [] key = "42" -> 42
      [] OTHER -> -1

\* Object.values(userPoints): the values under array-index keys by ascending index,
\* then the values under the other keys in the order the keys were created
ObjectValues(userPoints) ==
    LET indexed == SelectSeq(userPoints, LAMBDA u : ArrayIndex(u.key) >= 0)
        named   == SelectSeq(userPoints, LAMBDA u : ArrayIndex(u.key) < 0)
        order   == SortDescOrder([i \in 1..Len(indexed) |-> 0 - ArrayIndex(indexed[i].key)])
    IN  SubSeq([p \in 1..Len(indexed) |-> indexed[order[p]]], 1, Len(indexed)) \o named

\* getYearlyLeaderboard: the forEach that assigns user.rank
RECURSIVE YearlyRankLoop(_, _, _, _, _)
YearlyRankLoop(sortedUsers, i, currentRank, currentPoints, increment) ==
    IF i > Len(sortedUsers)
    THEN <<>>
    ELSE IF sortedUsers[i].totalPoints # currentPoints
    THEN <<currentRank + increment>>
         \o YearlyRankLoop(sortedUsers, i + 1, currentRank + increment,
                           sortedUsers[i].totalPoints, 1)
    ELSE <<currentRank>>
         \o YearlyRankLoop(sortedUsers, i + 1, currentRank, currentPoints,
                           increment + 1)

\* getYearlyLeaderboard: the sort of the kept users and their ranks
SortAndRankUsers(kept) ==
    LET order == SortDescOrder([i \in 1..Len(kept) |-> kept[i].totalPoints])
        sortedUsers == SubSeq([p \in 1..Len(kept) |-> kept[order[p]]], 1, Len(kept))
        ranks == YearlyRankLoop(sortedUsers, 1, 1, -1, 0)
    IN  [p \in 1..Len(kept) |->
            [username |-> sortedUsers[p].username,
             totalPoints |-> sortedUsers[p].totalPoints,
             participations |-> sortedUsers[p].participations,
             beaten |-> sortedUsers[p].beaten,
             mastered |-> sortedUsers[p].mastered,
             rank |-> ranks[p]]]

\* getYearlyLeaderboard
getYearlyLeaderboard(store) ==
    LET found == Find(store, LAMBDA a : a.year = CurYear)
        userPoints == UserPointsLoop(found, 1, <<>>)
    IN  CHOOSE sortedUsers \in
            { SortAndRankUsers(kept) :
                kept \in {SelectSeq(ObjectValues(userPoints),
                                 LAMBDA u : u.totalPoints > 0)} } : TRUE

(***************************************************************************)
(* Initial values of the parts a specification leaves alone.               *)
(***************************************************************************)
AwardIdle ==
    /\ awards = <<>>
    /\ announcementQueue = <<>>
    /\ nextId = 1

ReadIdle ==
    /\ aggOut = NoResult
    /\ aggPrev = NoResult
    /\ gameFound = TRUE

PollIdle ==
    /\ jobScheduled = FALSE
    /\ isChecking = FALSE
    /\ cyclesInFlight = 0
    /\ cycleOwner = "none"
    /\ triggersFired = 0
    /\ cyclesStarted = 0
    /\ droppedTriggers = 0
    /\ runJobResult = "none"

\* the handler invocations that may be in progress at once
Invocations == {1, 2}

\* no handler invocation in a slot
NoHandler == [trigger |-> "none", pc |-> "none", activeBefore |-> {}]

\* a job that started no handler, read nothing, ended no handler
NoFire == [trigger |-> "none", checksBefore |-> {}, activeBefore |-> {}]
NoRead == [by |-> "none", saw |-> {}, during |-> {}]
NoEnd == [trigger |-> "none", failed |-> "none", activeBefore |-> {}, activeAfter |-> {}]

MaintIdle ==
    /\ initialized = FALSE
    /\ startedJobs = {}
    /\ activeUsers = {}
    /\ lastUserChecks = {}
    /\ lastActiveUpdate = "null"
    /\ handlers = [i \in Invocations |-> NoHandler]
    /\ lastFired = NoFire
    /\ lastRead = NoRead
    /\ lastEnded = NoEnd

CallIdle ==
    /\ calls = [c \in CallSlots |-> NoPending]
    /\ lastCall = NoCall

\* the forceupdate interactions that may be open at once
Interactions == {1, 2}

ForceIdle ==
    /\ isUpdating = FALSE
    /\ updatesInFlight = 0
    /\ updateOwner = 0
    /\ pcForce = [i \in Interactions |-> "idle"]
    /\ originalIsUpdating = [i \in Interactions |-> FALSE]
    /\ forceReply = [i \in Interactions |-> "none"]
    /\ microtasks = <<>>
    /\ forceCalls = 0

(***************************************************************************)
(* Spec: the Award store, empty at first, and the operations writing it.   *)
(***************************************************************************)
Init ==
    /\ AwardIdle
    /\ ReadIdle
    /\ PollIdle
    /\ ForceIdle
    /\ MaintIdle
    /\ CallIdle

Score == \E u \in Usernames, g \in Games, obs \in ProgressInputs : ScorerApply(u, g, obs)
AddManual ==
    \E u \in Usernames, p \in ManualPoints, o \in ManualOutcomes :
        addManualAward(u, p, NoMetadata, o)
AddPlacement ==
    \E u \in Usernames, pl \in Placements, o \in ManualOutcomes :
        addPlacementAward(u, pl, o)
RemoveManual == \E id \in 0..MaxId : removeManualAward(id)

Next ==
    \/ Score
    \/ AddManual
    \/ AddPlacement
    \/ RemoveManual

Spec == Init /\ [][Next]_vars


(***************************************************************************)
(* commands/profile.js                                                     *)
(***************************************************************************)

\* Award.highestAwardKind: the tier the record holds
highestAwardKind(award) == award.award

\* AwardFunctions.getPoints: the points of a tier
getPoints(tier) ==
    CASE tier = MASTERED -> 7
      [] tier = BEATEN -> 4
      [] tier = PARTICIPATION -> 1
      [] OTHER -> 0

\* the stats object profile getYearlyStats starts from
ZeroProfileStats ==
    [totalPoints |-> 0, totalAchievements |-> 0, gamesParticipated |-> 0,
     gamesBeaten |-> 0, gamesMastered |-> 0, monthlyGames |-> 0, shadowGames |-> 0,
     participationGames |-> {}, beatenGames |-> {}, masteredGames |-> {}]

\* profile getYearlyStats: the switch on award.highestAwardKind
CountAwardKind(stats, kind, title) ==
    IF kind = MASTERED
    THEN [stats EXCEPT !.totalPoints = @ + getPoints(MASTERED),
                       !.gamesMastered = @ + 1,
                       !.masteredGames = @ \cup {title},
                       !.gamesBeaten = @ + 1,
                       !.beatenGames = @ \cup {title},
                       !.gamesParticipated = @ + 1,
                       !.participationGames = @ \cup {title}]
    ELSE IF kind = BEATEN
    THEN [stats EXCEPT !.totalPoints = @ + getPoints(BEATEN),
                       !.gamesBeaten = @ + 1,
                       !.beatenGames = @ \cup {title},
                       !.gamesParticipated = @ + 1,
                       !.participationGames = @ \cup {title}]
    ELSE IF kind = PARTICIPATION
    THEN [stats EXCEPT !.totalPoints = @ + getPoints(PARTICIPATION),
                       !.gamesParticipated = @ + 1,
                       !.participationGames = @ \cup {title}]
    ELSE stats

\* profile getYearlyStats: the loop over the user's challenge awards of the year
RECURSIVE ProfileStatsLoop(_, _, _, _)
ProfileStatsLoop(list, i, stats, processedGames) ==
    IF i > Len(list)
    THEN stats
    ELSE LET award == list[i]
             games == { g \in Games : g.gameId = award.gameId /\ g.year = CurYear }
             game == CHOOSE g \in games : TRUE
             gameKey == <<award.gameId, award.month>>
             counted == [stats EXCEPT
                            !.totalAchievements = @ + award.achievementCount,
                            !.monthlyGames = @ + (IF game.type = "MONTHLY" THEN 1 ELSE 0),
                            !.shadowGames = @ + (IF game.type = "SHADOW" THEN 1 ELSE 0)]
         IN  IF award.achievementCount <= 0 \/ games = {} \/ gameKey \in processedGames
             THEN ProfileStatsLoop(list, i + 1, stats, processedGames)
             ELSE ProfileStatsLoop(list, i + 1,
                      CountAwardKind(counted, highestAwardKind(award), award.gameId),
                      processedGames \cup {gameKey})

\* profile getYearlyStats, called with the normalized username
profileGetYearlyStats(store, normalizedUsername) ==
    LET found == Find(store, LAMBDA a : /\ a.raUsername = normalizedUsername
                                        /\ a.year = CurYear
                                        /\ a.gameId # "manual")
    IN  ProfileStatsLoop(found, 1, ZeroProfileStats, {})

(***************************************************************************)
(* SpecRead: the reads of the Award store.  The store is drawn from the    *)
(* stores the writers leave: lower-cased usernames, at most one per-game   *)
(* award per (user, game, period), manual awards with no tier flags.       *)
(* aggOut holds the reply of the latest read, aggPrev the reply of the     *)
(* same read when it was made just before.                                 *)
(***************************************************************************)
GameAward(user, gameId, year, tier) ==
    AwardDoc(0, user, gameId, CurMonth, year, tier, TierFlags(tier),
             ProgressCount(tier), 0, NoMetadata)

ManualAward(user, points, meta) ==
    AwardDoc(0, user, "manual", CurMonth, CurYear, MANUAL, NoFlags, 0, points, meta)

DrawnAwards ==
    { GameAward("amy", "g1", CurYear, t) : t \in Tiers }
    \cup { GameAward("amy", "g2", CurYear, t) : t \in {PARTICIPATION, MASTERED} }
    \cup { GameAward("bob", "g1", CurYear, t) : t \in {PARTICIPATION, BEATEN} }
    \cup { GameAward("cat", "g1", CurYear, BEATEN),
           GameAward("42", "g1", CurYear, BEATEN),
           GameAward("amy", "g1", CurYear - 1, MASTERED),
           ManualAward("amy", 2, NoMetadata),
           ManualAward("bob", 5, [type |-> "placement", placement |-> "first",
                                  month |-> "March"]) }

\* ten more players of the monthly game, all at one tier
FillerNames == <<"u01", "u02", "u03", "u04", "u05", "u06", "u07", "u08", "u09", "u10">>
Filler(tier) == [i \in 1..TopTenSize |-> GameAward(FillerNames[i], "g1", CurYear, tier)]

\* the store's _id of a document is its position
WithIds(list) == [i \in 1..Len(list) |-> [list[i] EXCEPT !.id = i]]

UniqueGameKeys(list) ==
    \A i, j \in 1..Len(list) :
        (i < j /\ list[i].gameId # "manual") =>
            <<list[i].raUsername, list[i].gameId, list[i].month, list[i].year>>
            # <<list[j].raUsername, list[j].gameId, list[j].month, list[j].year>>

ListsUpTo(n) == UNION { [1..k -> DrawnAwards] : k \in 0..n }

DrawnStores ==
    { WithIds(l) : l \in { m \in ListsUpTo(MaxAwards) : UniqueGameKeys(m) } }
    \cup { WithIds(pre \o Filler(t) \o post) :
             pre \in { m \in ListsUpTo(1) : TRUE },
             post \in { m \in ListsUpTo(1) : TRUE },
             t \in {PARTICIPATION, BEATEN} }

ReadUsernames == {"Amy", "bob"}

Aggregate(kind, user, value) ==
    /\ aggOut' = [kind |-> kind, user |-> user, value |-> value]
    /\ aggPrev' = IF aggOut.kind = kind /\ aggOut.user = user THEN aggOut ELSE NoResult
    /\ UNCHANGED <<awardVars, gameFound, pollVars, forceVars, maintVars, callVars>>

RunCalculateTotalPoints(username) ==
    Aggregate("calculateTotalPoints", username, calculateTotalPoints(awards, username))

RunGetYearlyStats(username) ==
    Aggregate("getYearlyStats", username, getYearlyStats(awards, username))

RunGetYearlyLeaderboard ==
    Aggregate("getYearlyLeaderboard", "", getYearlyLeaderboard(awards))

RunGetMonthlyLeaderboard ==
    Aggregate("getMonthlyLeaderboard", "", getMonthlyLeaderboard(awards, gameFound))

RunProfileGetYearlyStats(username) ==
    Aggregate("profileGetYearlyStats", username,
              profileGetYearlyStats(awards, toLowerCase(username)))

ReadInit ==
    /\ awards \in { st \in DrawnStores : UniqueGameKeys(st) }
    /\ announcementQueue = <<>>
    /\ nextId = Len(awards) + 1
    /\ aggOut = NoResult
    /\ aggPrev = NoResult
    /\ gameFound \in BOOLEAN
    /\ PollIdle
    /\ ForceIdle
    /\ MaintIdle
    /\ CallIdle

TotalPoints == \E u \in ReadUsernames : RunCalculateTotalPoints(u)
YearlyStats == \E u \in ReadUsernames : RunGetYearlyStats(u)
YearlyLeaderboard == RunGetYearlyLeaderboard
MonthlyLeaderboard == RunGetMonthlyLeaderboard
ProfileStats == \E u \in ReadUsernames : RunProfileGetYearlyStats(u)

ReadNext ==
    \/ TotalPoints
    \/ YearlyStats
    \/ YearlyLeaderboard
    \/ MonthlyLeaderboard
    \/ ProfileStats

SpecRead == ReadInit /\ [][ReadNext]_vars

(***************************************************************************)
(* Properties of the Award store (Spec).                                   *)
(***************************************************************************)
\* the (user, game, period) keys of the per-game awards of a store
GameKeys(store) ==
    { <<store[i].raUsername, store[i].gameId, store[i].month, store[i].year>> :
        i \in { j \in 1..Len(store) : store[j].gameId # "manual" } }

\* the positions of the awards stored under a key
KeyDocs(store, key) ==
    { i \in 1..Len(store) :
        <<store[i].raUsername, store[i].gameId, store[i].month, store[i].year>> = key }

\* the tier stored under a key, NONE when nothing is stored
TierOf(store, key) ==
    IF KeyDocs(store, key) = {}
    THEN NONE
    ELSE store[CHOOSE i \in KeyDocs(store, key) : \A j \in KeyDocs(store, key) : i <= j].award

\* an award whose latest observation reported less than its tier stands for
HoldsRegressedAward ==
    \E i \in 1..Len(awards) :
        /\ awards[i].gameId # "manual"
        /\ awards[i].award > NONE
        /\ awards[i].achievementCount < ProgressCount(awards[i].award)

\* C3: whatever sequence of progress observations is applied to a (user, game,
\* period), the Award of that key stays in the store and every award stored under
\* the key keeps a tier at least as high as before, also when the observation
\* reports less progress than an earlier one.
C3_TierNeverDecreases ==
    [][\A i \in 1..Len(awards) :
          awards[i].gameId # "manual" =>
             \E j \in 1..Len(awards') :
                /\ awards'[j].raUsername = awards[i].raUsername
                /\ awards'[j].gameId = awards[i].gameId
                /\ awards'[j].month = awards[i].month
                /\ awards'[j].year = awards[i].year
                /\ awards'[j].id = awards[i].id
                /\ awards'[j].award >= awards[i].award]_vars

\* C3 witness: an award above NONE whose latest observation reported less progress
C3_Witness == HoldsRegressedAward

\* C4: the store never holds two per-game awards of the same (user, game, period).
C4_OneAwardPerKey ==
    \A i, j \in 1..Len(awards) :
        (/\ i # j
         /\ awards[i].gameId # "manual"
         /\ awards[i].raUsername = awards[j].raUsername
         /\ awards[i].gameId = awards[j].gameId
         /\ awards[i].month = awards[j].month
         /\ awards[i].year = awards[j].year) => FALSE

\* C4 witness: one key was scored at least twice, and another award is stored too
C4_Witness ==
    /\ Len(announcementQueue) >= 2
    /\ announcementQueue[1].user = announcementQueue[2].user
    /\ announcementQueue[1].gameId = announcementQueue[2].gameId
    /\ Len(awards) >= 2

\* C5: a step enqueues an AnnouncementEvent exactly when it raises the tier stored
\* for a (user, game, period): then it appends one event for that key, from the tier
\* stored before to the tier stored after; a step that leaves every stored tier
\* equal or lower leaves the queue as it was.
C5_AnnounceExactlyOnRaise ==
    [][LET raisedKeys == { k \in GameKeys(awards') : TierOf(awards', k) > TierOf(awards, k) }
       IN  /\ raisedKeys = {} => announcementQueue' = announcementQueue
           /\ raisedKeys # {} =>
                \E k \in raisedKeys :
                    /\ raisedKeys = {k}
                    /\ announcementQueue' =
                         Append(announcementQueue,
                                [user |-> k[1], gameId |-> k[2], month |-> k[3],
                                 year |-> k[4], oldTier |-> TierOf(awards, k),
                                 newTier |-> TierOf(awards', k)])]_vars

\* C5 witness: a raise from a tier above NONE was announced, and a later re-check
\* that reported less was stored without an announcement
C5_Witness ==
    /\ \E n \in 1..Len(announcementQueue) : announcementQueue[n].oldTier >= PARTICIPATION
    /\ HoldsRegressedAward
    /\ \A n \in 1..Len(announcementQueue) :
          announcementQueue[n].newTier > announcementQueue[n].oldTier



(***************************************************************************)
(* Properties of the reads (SpecRead).                                     *)
(***************************************************************************)
\* the entries of a monthly reply: topTen followed by others
MonthlyEntries(reply) == reply.topTen \o reply.others

\* the awards getMonthlyLeaderboard is to return
MonthlyEligible(store) ==
    { i \in 1..Len(store) : /\ store[i].gameId = MonthlyGameId
                            /\ store[i].month = CurMonth
                            /\ store[i].year = CurYear
                            /\ store[i].achievementCount > 0 }

\* the points of a tier under the 1 / 4 / 7 scheme
TierPoints(tier) ==
    CASE tier = MASTERED -> 7
      [] tier = BEATEN -> 4
      [] tier = PARTICIPATION -> 1
      [] OTHER -> 0

RECURSIVE SumOfPairs(_)
SumOfPairs(pairs) ==
    IF pairs = {}
    THEN 0
    ELSE LET x == CHOOSE y \in pairs : TRUE
         IN  x[2] + SumOfPairs(pairs \ {x})

\* a user's awards of the current year
YearDocs(store, user) ==
    { i \in 1..Len(store) : toLowerCase(store[i].raUsername) = user /\ store[i].year = CurYear }

\* the tier points of a user, once per (game, period) of the year
YearTierPoints(store, user) ==
    LET docs == { i \in YearDocs(store, user) : store[i].gameId # "manual" }
        keys == { <<store[i].gameId, store[i].month>> : i \in docs }
        tierOfKey(k) == CHOOSE t \in Tiers :
                           /\ \E i \in docs : <<store[i].gameId, store[i].month>> = k
                                              /\ store[i].award = t
                           /\ \A i \in docs : <<store[i].gameId, store[i].month>> = k
                                              => store[i].award <= t
    IN  SumOfPairs({ <<k, TierPoints(tierOfKey(k))>> : k \in keys })

\* the points of a user's manual awards of the year
YearManualPoints(store, user) ==
    SumOfPairs({ <<i, store[i].totalAchievements>> :
                   i \in { j \in YearDocs(store, user) : store[j].gameId = "manual" } })

\* C6: in the monthly and in the yearly leaderboard every entry's rank is 1 + the
\* number of entries whose ranking metric is strictly greater (standard competition
\* ranking), so equal metrics share a rank and 5, 5, 3 gives 1, 1, 3.
C6_CompetitionRanking ==
    /\ (aggOut.kind = "getMonthlyLeaderboard" /\ ~aggOut.value.error) =>
          LET out == MonthlyEntries(aggOut.value)
          IN  \A p \in 1..Len(out) :
                 out[p].rank = 1 + Cardinality({ q \in 1..Len(out) :
                     out[q].award.achievementCount > out[p].award.achievementCount })
    /\ aggOut.kind = "getYearlyLeaderboard" =>
          LET out == aggOut.value
          IN  \A p \in 1..Len(out) :
                 out[p].rank = 1 + Cardinality({ q \in 1..Len(out) :
                     out[q].totalPoints > out[p].totalPoints })

\* C6 witness: a monthly reply of three entries with counts 5, 5, 3 and ranks 1, 1, 3
C6_Witness ==
    /\ aggOut.kind = "getMonthlyLeaderboard"
    /\ ~aggOut.value.error
    /\ Len(aggOut.value.topTen) = 3
    /\ [p \in 1..3 |-> aggOut.value.topTen[p].award.achievementCount] = <<5, 5, 3>>
    /\ [p \in 1..3 |-> aggOut.value.topTen[p].rank] = <<1, 1, 3>>

\* C7: topTen followed by others holds exactly the awards of the current monthly
\* game and period whose achievement count is above 0, each once, in order of
\* non-increasing achievement count.
C7_MonthlySelection ==
    (aggOut.kind = "getMonthlyLeaderboard" /\ ~aggOut.value.error) =>
        LET out == MonthlyEntries(aggOut.value)
        IN  /\ { out[p].award.id : p \in 1..Len(out) }
                 = { awards[i].id : i \in MonthlyEligible(awards) }
            /\ Len(out) = Cardinality(MonthlyEligible(awards))
            /\ \A p \in 1..Len(out) : \E i \in MonthlyEligible(awards) :
                   out[p].award = awards[i]
            /\ \A p, q \in 1..Len(out) :
                   p < q => out[p].award.achievementCount >= out[q].award.achievementCount

\* C7 witness: a reply with more than ten entries from a store that also holds an
\* award the selection leaves out
C7_Witness ==
    /\ aggOut.kind = "getMonthlyLeaderboard"
    /\ ~aggOut.value.error
    /\ Len(aggOut.value.others) >= 1
    /\ Cardinality(MonthlyEligible(awards)) < Len(awards)

\* C8 as claimed: every entry of the yearly leaderboard has as totalPoints the tier
\* points of the user, once per (game, period) of the year, plus the points of all
\* the user's manual awards of the year.
C8_Claimed_YearlyTotals ==
    aggOut.kind = "getYearlyLeaderboard" =>
        \A p \in 1..Len(aggOut.value) :
            aggOut.value[p].totalPoints
              = YearTierPoints(awards, toLowerCase(aggOut.value[p].username))
                + YearManualPoints(awards, toLowerCase(aggOut.value[p].username))

\* C9: calculateTotalPoints returns as total the tier points (7, 4, 1, 0) of the
\* user's distinct (game, period) keys of the year plus the points of the user's
\* manual awards of the year, with total = challenge + community and
\* challenge = 7 * mastered + 4 * beaten + participation.
C9_TotalPoints ==
    aggOut.kind = "calculateTotalPoints" =>
        LET v == aggOut.value
            user == toLowerCase(aggOut.user)
        IN  /\ v.total = YearTierPoints(awards, user) + YearManualPoints(awards, user)
            /\ v.total = v.challenge + v.community
            /\ v.challenge = 7 * v.breakdown.mastered + 4 * v.breakdown.beaten
                             + v.breakdown.participation

\* C9 witness: the total of a user with a mastered game, a second game, a manual
\* award and nothing else this year
C9_Witness ==
    /\ aggOut.kind = "calculateTotalPoints"
    /\ aggOut.value.breakdown.mastered = 1
    /\ aggOut.value.challenge > 7
    /\ aggOut.value.community > 0

YearlyReads == {"calculateTotalPoints", "getYearlyStats", "getYearlyLeaderboard"}

checkAchievements_unguarded(caller) ==
    /\ triggersFired' = triggersFired + 1
    /\ isChecking' = TRUE
    /\ cyclesInFlight' = cyclesInFlight + 1
    /\ cyclesStarted' = cyclesStarted + 1
    /\ cycleOwner' = caller
    /\ droppedTriggers' = droppedTriggers
    /\ runJobResult' = runJobResult

\* achievementService.checkAchievements(), up to its first await: a call made while
\* a cycle is running is logged and returns at once; any other call raises the flag
\* and starts a cycle.  A dropped call of runJobNow resolves, so runJobNow returns true.
checkAchievements(caller) ==
    /\ triggersFired' = triggersFired + 1
    /\ IF isChecking
       THEN /\ droppedTriggers' = droppedTriggers + 1
            /\ runJobResult' = IF caller = "runJobNow" THEN "true" ELSE runJobResult
            /\ UNCHANGED <<isChecking, cyclesInFlight, cyclesStarted, cycleOwner>>
       ELSE /\ isChecking' = TRUE
            /\ cyclesInFlight' = cyclesInFlight + 1
            /\ cyclesStarted' = cyclesStarted + 1
            /\ cycleOwner' = caller
            /\ UNCHANGED <<droppedTriggers, runJobResult>>

\* the rest of a cycle: the flag is lowered whether the cycle completed or threw; the
\* cron handler swallows the error, runJobNow returns true or false
checkAchievementsEnds(threw) ==
    /\ cyclesInFlight > 0
    /\ isChecking' = FALSE
    /\ cyclesInFlight' = cyclesInFlight - 1
    /\ cycleOwner' = "none"
    /\ runJobResult' = IF cycleOwner = "runJobNow"
                       THEN (IF threw THEN "false" ELSE "true")
                       ELSE runJobResult
    /\ UNCHANGED <<triggersFired, cyclesStarted, droppedTriggers>>

JobNames == {"achievementCheck", "unknownJob"}

\* Scheduler.startJob / stopJob: the achievementCheck job's cron task is the one
\* whose status is tracked
startJob(jobName) ==
    /\ jobScheduled' = IF jobName = "achievementCheck" THEN TRUE ELSE jobScheduled
    /\ UNCHANGED <<isChecking, cyclesInFlight, cycleOwner, triggersFired,
                   cyclesStarted, droppedTriggers, runJobResult>>

stopJob(jobName) ==
    /\ jobScheduled' = IF jobName = "achievementCheck" THEN FALSE ELSE jobScheduled
    /\ UNCHANGED <<isChecking, cyclesInFlight, cycleOwner, triggersFired,
                   cyclesStarted, droppedTriggers, runJobResult>>

\* Scheduler.runJobNow: a job name outside the switch throws inside the try and the
\* catch returns false
runJobNow(jobName) ==
    /\ triggersFired < MaxTriggers
    /\ jobScheduled' = jobScheduled
    /\ IF jobName = "achievementCheck"
       THEN checkAchievements("runJobNow")
       ELSE /\ runJobResult' = "false"
            /\ UNCHANGED <<isChecking, cyclesInFlight, cycleOwner, triggersFired,
                           cyclesStarted, droppedTriggers>>

\* the every-minute handler of the achievementCheck job; node-cron fires it on each
\* minute of a started task and does not wait for the handler of the minute before
achievementCheckTick ==
    /\ jobScheduled
    /\ triggersFired < MaxTriggers
    /\ jobScheduled' = jobScheduled
    /\ checkAchievements("cron")

PollInit == AwardIdle /\ ReadIdle /\ PollIdle /\ ForceIdle /\ MaintIdle /\ CallIdle

PollOthers == <<awardVars, readVars, forceVars, maintVars, callVars>>

StartJob == \E jobName \in JobNames : startJob(jobName) /\ UNCHANGED PollOthers

StopJob == \E jobName \in JobNames : stopJob(jobName) /\ UNCHANGED PollOthers

CronTick == achievementCheckTick /\ UNCHANGED PollOthers

RunJobNow == \E jobName \in JobNames : runJobNow(jobName) /\ UNCHANGED PollOthers

CycleEnds ==
    \E threw \in BOOLEAN :
        /\ checkAchievementsEnds(threw)
        /\ jobScheduled' = jobScheduled
        /\ UNCHANGED PollOthers

PollNext == StartJob \/ StopJob \/ CronTick \/ RunJobNow \/ CycleEnds

SpecPoll == PollInit /\ [][PollNext]_vars

\* C1: at most one poll cycle is in flight at any moment; a cycle starts only in the
\* step of a trigger that finds no cycle running, a trigger that fires while a cycle
\* is running starts nothing, and the end of a cycle starts no cycle for a trigger
\* dropped before.
C1_SingleFlight ==
    /\ [](cyclesInFlight <= 1)
    /\ [][/\ cyclesStarted' # cyclesStarted =>
                /\ cyclesInFlight = 0
                /\ triggersFired' = triggersFired + 1
                /\ cyclesStarted' = cyclesStarted + 1
          /\ (triggersFired' # triggersFired /\ cyclesInFlight > 0) =>
                /\ cyclesStarted' = cyclesStarted
                /\ cyclesInFlight' = cyclesInFlight
                /\ droppedTriggers' = droppedTriggers + 1
          /\ cyclesInFlight' < cyclesInFlight => cyclesStarted' = cyclesStarted]_vars

\* C1 witness: a cron tick and a runJobNow were both dropped while a cycle ran, that
\* cycle has ended, and no cycle was started for them
C1_Witness ==
    /\ droppedTriggers >= 2
    /\ cyclesStarted = 1
    /\ cyclesInFlight = 0
    /\ runJobResult = "true"

(***************************************************************************)
(* SpecForce: the forceupdate command and the scheduled updates, both      *)
(* calling statsUpdateService.start().  Each action is one job of the      *)
(* event loop; a continuation queued by a settled promise runs before the  *)
(* next job.                                                               *)
(***************************************************************************)

\* statsUpdateService.start(), up to its first await, on the given flag: a call made
\* while the flag is up returns at once, any other call raises it and starts an update
start(flag, inFlight, owner, caller) ==
    IF flag
    THEN [isUpdating |-> flag, updatesInFlight |-> inFlight, updateOwner |-> owner,
          entered |-> FALSE]
    ELSE [isUpdating |-> TRUE, updatesInFlight |-> inFlight + 1, updateOwner |-> caller,
          entered |-> TRUE]

\* forceUpdate.js line 23 with the test left out
updateInProgress_ignored == FALSE

\* forceUpdate.js line 23: the test of statsUpdateService.isUpdating
updateInProgress == isUpdating

\* execute, lines 12-19: the admin-role test and deferReply
executeBegins(i, isAdmin) ==
    /\ pcForce[i] \in {"idle", "done"}
    /\ forceCalls < MaxForceCalls
    /\ forceCalls' = forceCalls + 1
    /\ originalIsUpdating' = [originalIsUpdating EXCEPT ![i] = FALSE]
    /\ IF isAdmin
       THEN /\ pcForce' = [pcForce EXCEPT ![i] = "deferring"]
            /\ forceReply' = [forceReply EXCEPT ![i] = "none"]
       ELSE /\ pcForce' = [pcForce EXCEPT ![i] = "done"]
            /\ forceReply' = [forceReply EXCEPT ![i] = "noPermission"]
    /\ UNCHANGED <<isUpdating, updatesInFlight, updateOwner, microtasks>>

\* execute, lines 21-34, run in one job once deferReply has resolved: the test of
\* the flag, the "starting" reply, the save and reset of the flag and the call of
\* start(), whose promise the command then awaits
executeTry(i) ==
    /\ pcForce[i] = "deferring"
    /\ forceCalls' = forceCalls
    /\ IF updateInProgress
       THEN /\ forceReply' = [forceReply EXCEPT ![i] = "alreadyInProgress"]
            /\ pcForce' = [pcForce EXCEPT ![i] = "done"]
            /\ UNCHANGED <<isUpdating, updatesInFlight, updateOwner,
                           originalIsUpdating, microtasks>>
       ELSE LET r == start(FALSE, updatesInFlight, updateOwner, i)
            IN  /\ forceReply' = [forceReply EXCEPT ![i] = "starting"]
                /\ originalIsUpdating' = [originalIsUpdating EXCEPT ![i] = isUpdating]
                /\ isUpdating' = r.isUpdating
                /\ updatesInFlight' = r.updatesInFlight
                /\ updateOwner' = r.updateOwner
                /\ pcForce' = [pcForce EXCEPT ![i] = "awaitStart"]
                /\ microtasks' = IF r.entered THEN microtasks
                                 ELSE Append(microtasks, [inv |-> i, threw |-> FALSE])

\* execute restoring a flag read at line 31 only once start() had raised it
executeResumes_leavesRaised ==
    /\ microtasks # <<>>
    /\ LET m == Head(microtasks)
       IN  /\ microtasks' = Tail(microtasks)
           /\ pcForce' = [pcForce EXCEPT ![m.inv] = "done"]
           /\ forceReply' = [forceReply EXCEPT
                                ![m.inv] = IF m.threw THEN "error" ELSE "completed"]
           /\ isUpdating' = IF m.threw THEN isUpdating ELSE TRUE
    /\ UNCHANGED <<updatesInFlight, updateOwner, originalIsUpdating, forceCalls>>

\* execute, lines 36-43, the continuation of the await: the flag is restored and
\* "completed" replied, or the catch replies the error
executeResumes ==
    /\ microtasks # <<>>
    /\ LET m == Head(microtasks)
       IN  /\ microtasks' = Tail(microtasks)
           /\ pcForce' = [pcForce EXCEPT ![m.inv] = "done"]
           /\ forceReply' = [forceReply EXCEPT
                                ![m.inv] = IF m.threw THEN "error" ELSE "completed"]
           /\ isUpdating' = IF m.threw THEN isUpdating ELSE originalIsUpdating[m.inv]
    /\ UNCHANGED <<updatesInFlight, updateOwner, originalIsUpdating, forceCalls>>

\* a scheduled update: the periodic caller of statsUpdateService.start()
scheduledStart ==
    LET r == start(isUpdating, updatesInFlight, updateOwner, 0)
    IN  /\ isUpdating' = r.isUpdating
        /\ updatesInFlight' = r.updatesInFlight
        /\ updateOwner' = r.updateOwner
        /\ UNCHANGED <<pcForce, originalIsUpdating, forceReply, microtasks, forceCalls>>

\* the rest of statsUpdateService.start(): the flag is lowered whether the update
\* completed or threw, and the awaiting forceupdate, if any, is resumed
startEnds(threw) ==
    /\ updatesInFlight > 0
    /\ isUpdating' = FALSE
    /\ updatesInFlight' = updatesInFlight - 1
    /\ updateOwner' = 0
    /\ microtasks' = IF updateOwner \in Interactions
                     THEN Append(microtasks, [inv |-> updateOwner, threw |-> threw])
                     ELSE microtasks
    /\ UNCHANGED <<pcForce, originalIsUpdating, forceReply, forceCalls>>

ForceInit == AwardIdle /\ ReadIdle /\ PollIdle /\ ForceIdle /\ MaintIdle /\ CallIdle

ForceOthers == <<awardVars, readVars, pollVars, maintVars, callVars>>

ForceInvoke ==
    /\ microtasks = <<>>
    /\ \E i \in Interactions, isAdmin \in BOOLEAN : executeBegins(i, isAdmin)
    /\ UNCHANGED ForceOthers

ForceAfterDefer ==
    /\ microtasks = <<>>
    /\ \E i \in Interactions : executeTry(i)
    /\ UNCHANGED ForceOthers

ForceResume == executeResumes /\ UNCHANGED ForceOthers

ScheduledUpdate ==
    /\ microtasks = <<>>
    /\ scheduledStart
    /\ UNCHANGED ForceOthers

UpdateEnds ==
    /\ microtasks = <<>>
    /\ \E threw \in BOOLEAN : startEnds(threw)
    /\ UNCHANGED ForceOthers

ForceNext ==
    ForceInvoke \/ ForceAfterDefer \/ ForceResume \/ ScheduledUpdate \/ UpdateEnds

SpecForce == ForceInit /\ [][ForceNext]_vars

OnlyRecord(d) == <<[d EXCEPT !.id = 1]>>

C12_Claimed_TallyOrder ==
    /\ aggOut.kind = "getYearlyStats" =>
          /\ aggOut.value.mastered <= aggOut.value.beaten
          /\ aggOut.value.beaten <= aggOut.value.participation
    /\ aggOut.kind = "calculateTotalPoints" =>
          /\ aggOut.value.breakdown.mastered <= aggOut.value.breakdown.beaten
          /\ aggOut.value.breakdown.beaten <= aggOut.value.breakdown.participation
    /\ aggOut.kind = "profileGetYearlyStats" =>
          /\ aggOut.value.gamesMastered <= aggOut.value.gamesBeaten
          /\ aggOut.value.gamesBeaten <= aggOut.value.gamesParticipated
    /\ aggOut.kind = "getYearlyLeaderboard" =>
          \A p \in 1..Len(aggOut.value) :
              /\ aggOut.value[p].mastered <= aggOut.value[p].beaten
              /\ aggOut.value[p].beaten <= aggOut.value[p].participations

(***************************************************************************)
(* Properties of the manual awards (Spec)                                  *)
(***************************************************************************)

\* the _id values of a store
IdsOf(store) == { store[i].id : i \in 1..Len(store) }

\* C13: every addManualAward call that succeeds adds exactly one record, with gameId
\* 'manual', the given points and an _id no record had, and leaves every record that
\* was there as it was; so calls with identical arguments leave as many records.
C13_ManualAwardsAdditive ==
    [][\A u \in Usernames, p \in ManualPoints :
          addManualAward(u, p, NoMetadata, "ok") =>
              /\ Len(awards') = Len(awards) + 1
              /\ SubSeq(awards', 1, Len(awards)) = awards
              /\ awards'[Len(awards')].gameId = "manual"
              /\ awards'[Len(awards')].totalAchievements = p
              /\ awards'[Len(awards')].raUsername = toLowerCase(u)
              /\ awards'[Len(awards')].id \notin IdsOf(awards)
              /\ ManualCount(awards') = ManualCount(awards) + 1]_vars

\* C13 witness: two calls with identical arguments left two records that differ in
\* their _id only
C13_Witness ==
    \E i, j \in 1..Len(awards) :
        /\ i < j
        /\ awards[i].gameId = "manual"
        /\ awards[i].id # awards[j].id
        /\ [awards[i] EXCEPT !.id = 0] = [awards[j] EXCEPT !.id = 0]

(***************************************************************************)
(* Properties of the yearly leaderboard's selection and order (SpecRead)   *)
(***************************************************************************)

\* the users with a record of the current year
YearUsers(store) ==
    { toLowerCase(store[i].raUsername) :
        i \in { j \in 1..Len(store) : store[j].year = CurYear } }

\* the yearly total of a user: tier points plus manual points
YearlyTotal(store, user) == YearTierPoints(store, user) + YearManualPoints(store, user)

\* C14 as claimed: the yearly leaderboard lists exactly the users whose yearly total
\* is above 0, each once, by non-increasing totalPoints; a user with manual points
\* only is listed.
C14_Claimed_YearlySelection ==
    aggOut.kind = "getYearlyLeaderboard" =>
        LET out == aggOut.value
        IN  /\ { toLowerCase(out[p].username) : p \in 1..Len(out) }
                   = { u \in YearUsers(awards) : YearlyTotal(awards, u) > 0 }
            /\ \A p, q \in 1..Len(out) :
                   p < q => /\ out[p].totalPoints >= out[q].totalPoints
                            /\ toLowerCase(out[p].username) # toLowerCase(out[q].username)

(***************************************************************************)
(* Properties of the order of tied entries (SpecRead)                      *)
(***************************************************************************)

\* the position of the first record of a user in the store
FirstRecord(store, user) ==
    CHOOSE i \in 1..Len(store) :
        /\ toLowerCase(store[i].raUsername) = user
        /\ store[i].year = CurYear
        /\ \A j \in 1..(i - 1) :
              ~(toLowerCase(store[j].raUsername) = user /\ store[j].year = CurYear)

\* C15 as claimed: in the monthly and in the yearly leaderboard, entries with equal
\* ranking metric come out in the order in which they were read from the store.
C15_Claimed_StableTies ==
    /\ (aggOut.kind = "getMonthlyLeaderboard" /\ ~aggOut.value.error) =>
          LET out == MonthlyEntries(aggOut.value)
          IN  \A p, q \in 1..Len(out) :
                  (p < q /\ out[p].award.achievementCount = out[q].award.achievementCount)
                      => out[p].award.id < out[q].award.id
    /\ aggOut.kind = "getYearlyLeaderboard" =>
          LET out == aggOut.value
          IN  \A p, q \in 1..Len(out) :
                  (p < q /\ out[p].totalPoints = out[q].totalPoints)
                      => FirstRecord(awards, toLowerCase(out[p].username))
                             < FirstRecord(awards, toLowerCase(out[q].username))

(***************************************************************************)
(* SpecMaint: the six cron jobs of the scheduler and the state of the      *)
(* achievement service they share.  Each action is one job of the event    *)
(* loop: a handler runs from its trigger, or from the settling of what it  *)
(* awaits, to its next await.  node-cron calls a started job's handler on  *)
(* every matching tick and does not wait for the promise it returns.       *)
(***************************************************************************)

AllJobs == {"achievementCheck", "activeUsersUpdate", "dailyCleanup",
            "weeklyMaintenance", "monthlyRollover", "serviceMonitor"}

MaintenanceJobs == {"dailyCleanup", "weeklyMaintenance", "monthlyRollover"}

\* the users the service knows, and the ACTIVE sets a refresh may compute
KnownUsers == {"amy", "bob"}
RefreshedSets == {{"amy"}, {"amy", "bob"}}

\* the lowest free invocation slot
FreeSlots == { i \in Invocations : handlers[i] = NoHandler }
FreeSlot == CHOOSE i \in FreeSlots : \A j \in FreeSlots : i <= j

\* the handler invocations in progress
InProgress == { handlers[i] : i \in { j \in Invocations : handlers[j] # NoHandler } }

\* a read of achievementService.activeUsers (its size, or its members)
ReadBy(reader) == [by |-> reader, saw |-> activeUsers, during |-> InProgress]

\* a handler invocation suspended at an await
Suspended(trigger, pc) ==
    [trigger |-> trigger, pc |-> pc, activeBefore |-> activeUsers]

\* a trigger firing: what its handler found when it started
Fired(trigger) ==
    [trigger |-> trigger, checksBefore |-> lastUserChecks, activeBefore |-> activeUsers]

\* what a job that starts no handler, reads nothing and ends no handler leaves
Quiet == lastFired' = NoFire /\ lastRead' = NoRead /\ lastEnded' = NoEnd

\* the end of a handler invocation: the error its catch logged, if any
Ended(trigger, failed, before, after) ==
    [trigger |-> trigger, failed |-> failed, activeBefore |-> before,
     activeAfter |-> after]

\* achievementService.clearCache leaving lastUserChecks alone
clearCache_keepsChecks(checks) == checks

\* achievementService.clearCache: the Check Cache after it
clearCache(checks) == {}

\* achievementService.updateActiveUsers, when its fetch settles: the ACTIVE set is
\* replaced by the refreshed one, or kept when the fetch failed
updateActiveUsers(ok, refreshed) ==
    /\ activeUsers' = IF ok THEN refreshed ELSE activeUsers
    /\ lastActiveUpdate' = IF ok THEN "set" ELSE lastActiveUpdate

\* Scheduler.initialize
initialize(serviceOk) ==
    /\ initialized' = (initialized \/ serviceOk)
    /\ Quiet
    /\ UNCHANGED <<startedJobs, activeUsers, lastUserChecks, lastActiveUpdate,
                   handlers, pollVars>>

\* Scheduler.startAll: throws before starting any job unless initialized
startAll ==
    /\ startedJobs' = IF initialized THEN AllJobs ELSE startedJobs
    /\ jobScheduled' = IF initialized THEN TRUE ELSE jobScheduled
    /\ Quiet
    /\ UNCHANGED <<initialized, activeUsers, lastUserChecks, lastActiveUpdate,
                   handlers, isChecking, cyclesInFlight, cycleOwner, triggersFired,
                   cyclesStarted, droppedTriggers, runJobResult>>

\* Scheduler.stopAll
stopAll ==
    /\ startedJobs' = {}
    /\ jobScheduled' = FALSE
    /\ Quiet
    /\ UNCHANGED <<initialized, activeUsers, lastUserChecks, lastActiveUpdate,
                   handlers, isChecking, cyclesInFlight, cycleOwner, triggersFired,
                   cyclesStarted, droppedTriggers, runJobResult>>

\* the achievementCheck handler, from its tick to its await: a call the guard drops
\* resolves at once and the handler is over within the job
achievementCheckHandler ==
    /\ "achievementCheck" \in startedJobs
    /\ triggersFired < MaxPollTicks
    /\ FreeSlots # {}
    /\ checkAchievements("cron")
    /\ jobScheduled' = jobScheduled
    /\ lastFired' = Fired("achievementCheck")
    /\ lastRead' = NoRead
    /\ IF isChecking
       THEN /\ handlers' = handlers
            /\ lastEnded' = Ended("achievementCheck", "none", activeUsers, activeUsers)
       ELSE /\ handlers' = [handlers EXCEPT
                               ![FreeSlot] = Suspended("achievementCheck", "awaitCycle")]
            /\ lastEnded' = NoEnd
    /\ UNCHANGED <<initialized, startedJobs, activeUsers, lastUserChecks,
                   lastActiveUpdate>>

\* a poll cycle in flight checks one user: it reads the ACTIVE set to decide whether
\* the user is due and records the check
pollChecksUser(u) ==
    /\ cyclesInFlight > 0
    /\ lastRead' = ReadBy("poll")
    /\ lastFired' = NoFire
    /\ lastEnded' = NoEnd
    /\ lastUserChecks' = lastUserChecks \cup {u}
    /\ UNCHANGED <<initialized, startedJobs, activeUsers, lastActiveUpdate, handlers,
                   pollVars>>

\* the poll cycle of an achievementCheck handler ends; the handler logs what it threw
achievementCheckEnds(i, threw) ==
    /\ handlers[i].pc = "awaitCycle"
    /\ checkAchievementsEnds(threw)
    /\ jobScheduled' = jobScheduled
    /\ handlers' = [handlers EXCEPT ![i] = NoHandler]
    /\ lastEnded' = Ended("achievementCheck",
                          IF threw THEN "checkAchievements" ELSE "none",
                          handlers[i].activeBefore, activeUsers)
    /\ lastFired' = NoFire
    /\ lastRead' = NoRead
    /\ UNCHANGED <<initialized, startedJobs, activeUsers, lastUserChecks,
                   lastActiveUpdate>>

\* the activeUsersUpdate handler, from its tick to its await
activeUsersUpdateHandler ==
    /\ "activeUsersUpdate" \in startedJobs
    /\ FreeSlots # {}
    /\ handlers' = [handlers EXCEPT
                       ![FreeSlot] = Suspended("activeUsersUpdate", "awaitUpdate")]
    /\ lastFired' = Fired("activeUsersUpdate")
    /\ lastRead' = NoRead
    /\ lastEnded' = NoEnd
    /\ UNCHANGED <<initialized, startedJobs, activeUsers, lastUserChecks,
                   lastActiveUpdate, pollVars>>

\* the dailyCleanup handler, from its tick to its await: clearCache, then the call
\* of updateActiveUsers; a throwing clearCache ends the handler in its catch
dailyCleanupHandler(cacheThrows) ==
    /\ "dailyCleanup" \in startedJobs
    /\ FreeSlots # {}
    /\ lastFired' = Fired("dailyCleanup")
    /\ lastRead' = NoRead
    /\ IF cacheThrows
       THEN /\ lastEnded' = Ended("dailyCleanup", "clearCache", activeUsers, activeUsers)
            /\ UNCHANGED <<handlers, lastUserChecks>>
       ELSE /\ lastUserChecks' = clearCache(lastUserChecks)
            /\ handlers' = [handlers EXCEPT
                               ![FreeSlot] = Suspended("dailyCleanup", "awaitUpdate")]
            /\ lastEnded' = NoEnd
    /\ UNCHANGED <<initialized, startedJobs, activeUsers, lastActiveUpdate, pollVars>>

\* the clears the weekly and the monthly handler make once clearCache has returned:
\* lastUserChecks.clear(), activeUsers.clear(), lastActiveUpdate = null
resetTracking ==
    /\ lastUserChecks' = {}
    /\ activeUsers' = {}
    /\ lastActiveUpdate' = "null"

\* the weeklyMaintenance handler, from its tick to the await of updateActiveUsers
weeklyMaintenanceHandler(cacheThrows) ==
    /\ "weeklyMaintenance" \in startedJobs
    /\ FreeSlots # {}
    /\ lastFired' = Fired("weeklyMaintenance")
    /\ lastRead' = NoRead
    /\ IF cacheThrows
       THEN /\ lastEnded' = Ended("weeklyMaintenance", "clearCache",
                                  activeUsers, activeUsers)
            /\ UNCHANGED <<handlers, lastUserChecks, activeUsers, lastActiveUpdate>>
       ELSE /\ resetTracking
            /\ handlers' = [handlers EXCEPT
                               ![FreeSlot] = Suspended("weeklyMaintenance", "awaitUpdate")]
            /\ lastEnded' = NoEnd
    /\ UNCHANGED <<initialized, startedJobs, pollVars>>

\* the monthlyRollover handler, from its tick to the 5-second wait
monthlyRolloverHandler(cacheThrows) ==
    /\ "monthlyRollover" \in startedJobs
    /\ FreeSlots # {}
    /\ lastFired' = Fired("monthlyRollover")
    /\ lastRead' = NoRead
    /\ IF cacheThrows
       THEN /\ lastEnded' = Ended("monthlyRollover", "clearCache",
                                  activeUsers, activeUsers)
            /\ UNCHANGED <<handlers, lastUserChecks, activeUsers, lastActiveUpdate>>
       ELSE /\ resetTracking
            /\ handlers' = [handlers EXCEPT
                               ![FreeSlot] = Suspended("monthlyRollover", "waiting")]
            /\ lastEnded' = NoEnd
    /\ UNCHANGED <<initialized, startedJobs, pollVars>>

\* monthlyRollover after its wait: the call of updateActiveUsers
monthlyRolloverWaited(i) ==
    /\ handlers[i].pc = "waiting"
    /\ handlers' = [handlers EXCEPT ![i].pc = "awaitUpdate"]
    /\ Quiet
    /\ UNCHANGED <<initialized, startedJobs, activeUsers, lastUserChecks,
                   lastActiveUpdate, pollVars>>

\* the updateActiveUsers a handler awaits settles: on failure the handler's catch logs
\* it and the handler is over; on success activeUsersUpdate is over, dailyCleanup logs
\* the sizes and is over, and the weekly and monthly handlers go on to preload
handlerUpdateSettles(i, ok, refreshed) ==
    LET h == handlers[i]
    IN  /\ h.pc = "awaitUpdate"
        /\ updateActiveUsers(ok, refreshed)
        /\ lastFired' = NoFire
        /\ lastRead' = NoRead
        /\ IF ok /\ h.trigger \in {"weeklyMaintenance", "monthlyRollover"}
           THEN /\ handlers' = [handlers EXCEPT ![i].pc = "awaitPreload"]
                /\ lastEnded' = NoEnd
           ELSE /\ handlers' = [handlers EXCEPT ![i] = NoHandler]
                /\ lastEnded' = Ended(h.trigger,
                                      IF ok THEN "none" ELSE "updateActiveUsers",
                                      h.activeBefore, activeUsers')
        /\ UNCHANGED <<initialized, startedJobs, lastUserChecks, pollVars>>

\* the handler whose failed preload takes its job off the schedule
handlerPreloadSettles_stopsJob(i, ok) ==
    LET h == handlers[i]
    IN  /\ h.pc = "awaitPreload"
        /\ handlers' = [handlers EXCEPT ![i] = NoHandler]
        /\ lastEnded' = Ended(h.trigger,
                              IF ok THEN "none" ELSE "preloadCurrentChallenges",
                              h.activeBefore, activeUsers)
        /\ lastFired' = NoFire
        /\ lastRead' = NoRead
        /\ startedJobs' = IF ok THEN startedJobs ELSE startedJobs \ {h.trigger}
        /\ UNCHANGED <<initialized, activeUsers, lastUserChecks,
                       lastActiveUpdate, pollVars>>

\* the preloadCurrentChallenges a weekly or monthly handler awaits settles: the handler
\* logs its completion, or its catch logs the error
handlerPreloadSettles(i, ok) ==
    LET h == handlers[i]
    IN  /\ h.pc = "awaitPreload"
        /\ handlers' = [handlers EXCEPT ![i] = NoHandler]
        /\ lastEnded' = Ended(h.trigger,
                              IF ok THEN "none" ELSE "preloadCurrentChallenges",
                              h.activeBefore, activeUsers)
        /\ lastFired' = NoFire
        /\ lastRead' = NoRead
        /\ UNCHANGED <<initialized, startedJobs, activeUsers, lastUserChecks,
                       lastActiveUpdate, pollVars>>

\* the serviceMonitor handler: getStats reads the service's sizes and is logged, or
\* what it throws is logged by the catch
serviceMonitorHandler(statsThrow) ==
    /\ "serviceMonitor" \in startedJobs
    /\ lastFired' = Fired("serviceMonitor")
    /\ lastRead' = IF statsThrow THEN NoRead ELSE ReadBy("serviceMonitor")
    /\ lastEnded' = Ended("serviceMonitor", IF statsThrow THEN "getStats" ELSE "none",
                          activeUsers, activeUsers)
    /\ UNCHANGED <<initialized, startedJobs, activeUsers, lastUserChecks,
                   lastActiveUpdate, handlers, pollVars>>

MaintInit == AwardIdle /\ ReadIdle /\ PollIdle /\ ForceIdle /\ MaintIdle /\ CallIdle

MaintOthers == <<awardVars, readVars, forceVars, callVars>>

Initialize == \E serviceOk \in BOOLEAN : initialize(serviceOk) /\ UNCHANGED MaintOthers

StartAll == startAll /\ UNCHANGED MaintOthers

StopAll == stopAll /\ UNCHANGED MaintOthers

AchievementCheck == achievementCheckHandler /\ UNCHANGED MaintOthers

PollChecksUser == \E u \in KnownUsers : pollChecksUser(u) /\ UNCHANGED MaintOthers

AchievementCheckEnds ==
    \E i \in Invocations, threw \in BOOLEAN :
        achievementCheckEnds(i, threw) /\ UNCHANGED MaintOthers

ActiveUsersUpdate == activeUsersUpdateHandler /\ UNCHANGED MaintOthers

DailyCleanup ==
    \E cacheThrows \in BOOLEAN : dailyCleanupHandler(cacheThrows) /\ UNCHANGED MaintOthers

WeeklyMaintenance ==
    \E cacheThrows \in BOOLEAN :
        weeklyMaintenanceHandler(cacheThrows) /\ UNCHANGED MaintOthers

MonthlyRollover ==
    \E cacheThrows \in BOOLEAN :
        monthlyRolloverHandler(cacheThrows) /\ UNCHANGED MaintOthers

MonthlyRolloverWaited ==
    \E i \in Invocations : monthlyRolloverWaited(i) /\ UNCHANGED MaintOthers

HandlerUpdateSettles ==
    \E i \in Invocations, ok \in BOOLEAN, refreshed \in RefreshedSets :
        handlerUpdateSettles(i, ok, refreshed) /\ UNCHANGED MaintOthers

HandlerPreloadSettles ==
    \E i \in Invocations, ok \in BOOLEAN :
        handlerPreloadSettles(i, ok) /\ UNCHANGED MaintOthers

ServiceMonitor ==
    \E statsThrow \in BOOLEAN : serviceMonitorHandler(statsThrow) /\ UNCHANGED MaintOthers

MaintNext ==
    \/ Initialize
    \/ StartAll
    \/ StopAll
    \/ AchievementCheck
    \/ PollChecksUser
    \/ AchievementCheckEnds
    \/ ActiveUsersUpdate
    \/ DailyCleanup
    \/ WeeklyMaintenance
    \/ MonthlyRollover
    \/ MonthlyRolloverWaited
    \/ HandlerUpdateSettles
    \/ HandlerPreloadSettles
    \/ ServiceMonitor

SpecMaint == MaintInit /\ [][MaintNext]_vars

(***************************************************************************)
(* Properties of the maintenance handlers (SpecMaint)                      *)
(***************************************************************************)

C17_Claimed_MaintenanceExcludesPoll ==
    /\ cyclesInFlight > 0 =>
          \A i \in Invocations : handlers[i].trigger \notin MaintenanceJobs
    /\ (lastFired.trigger \in MaintenanceJobs /\ lastEnded.failed # "clearCache") =>
          cyclesInFlight = 0

\* C18 as claimed: no reader of the ACTIVE set sees a set with members emptied by
\* activeUsers.clear() of a weekly or monthly handler whose updateActiveUsers has
\* not yet repopulated it.
C18_Claimed_AtomicActiveSet ==
    lastRead.by # "none" =>
        ~ \E d \in lastRead.during :
              /\ d.trigger \in {"weeklyMaintenance", "monthlyRollover"}
              /\ d.pc \in {"waiting", "awaitUpdate"}
              /\ d.activeBefore # {}
              /\ lastRead.saw = {}

\* C19 as claimed: when updateActiveUsers fails in a handler, the ACTIVE set after the
\* handler has ended is the ACTIVE set from before its trigger fired (or the set that
\* another handler's refresh, succeeding meanwhile, put in its place).
C19_Claimed_FailureKeepsActiveSet ==
    lastEnded.failed = "updateActiveUsers" =>
        \/ lastEnded.activeAfter = lastEnded.activeBefore
        \/ lastEnded.activeAfter \in RefreshedSets

\* C20 as claimed: no two invocations of one trigger's handler are in progress at once.
C20_Claimed_NoHandlerOverlap ==
    \A i, j \in Invocations :
        (i # j /\ handlers[i] # NoHandler) => handlers[i].trigger # handlers[j].trigger

(***************************************************************************)
(* Properties of the manual awards as their callers see them (Spec)        *)
(***************************************************************************)

\* the per-game awards of a store, in collection order
PerGameAwards(store) == SelectSeq(store, LAMBDA a : a.gameId # "manual")

\* C25: removeManualAward deletes the record of the id only when it exists and its
\* gameId is 'manual', and then returns true; for a missing id or the id of a per-game
\* award it throws 'Invalid award ID or not a manual award' and leaves the store as it
\* was.  No call of it deletes or changes a per-game award.
C25_RemoveOnlyManual ==
    [][lastCall'.op = "removeManualAward" =>
          LET id == lastCall'.id
          IN  /\ PerGameAwards(awards') = PerGameAwards(awards)
              /\ IF \E i \in 1..Len(awards) :
                       awards[i].id = id /\ awards[i].gameId = "manual"
                 THEN /\ ~ lastCall'.threw
                      /\ lastCall'.returned = "true"
                      /\ Len(awards') = Len(awards) - 1
                      /\ IdsOf(awards') = IdsOf(awards) \ {id}
                 ELSE /\ lastCall'.threw
                      /\ lastCall'.failed = "Invalid award ID or not a manual award"
                      /\ awards' = awards]_vars

\* C25 witness: removeManualAward was called with the id of a per-game award that sits
\* next to a manual award; it threw and the award is still in the store
C25_Witness ==
    /\ lastCall.op = "removeManualAward"
    /\ lastCall.threw
    /\ \E i \in 1..Len(awards) : awards[i].id = lastCall.id /\ awards[i].award = BEATEN
    /\ ManualCount(awards) > 0

\* C29 as claimed: when addManualAward throws, whichever of its calls failed, the store
\* holds no new manual award and no announcement for it went out.
C29_Claimed_AtomicManualAward ==
    [][(lastCall'.op = "addManualAward" /\ lastCall'.threw) =>
          (awards' = awards /\ ~ lastCall'.announced)]_vars

(***************************************************************************)
(* Properties of the forceupdate command's writes of the flag (SpecForce)  *)
(***************************************************************************)

SpelledAwards ==
    { GameAward("amy", "g1", CurYear, t) : t \in {PARTICIPATION, BEATEN, MASTERED} }
    \cup { GameAward("Amy", "g2", CurYear, t) : t \in {PARTICIPATION, MASTERED} }
    \cup { GameAward("Amy", "g1", CurYear, BEATEN),
           GameAward("bob", "g1", CurYear, BEATEN),
           GameAward("BOB", "g2", CurYear, PARTICIPATION),
           GameAward("cat", "g1", CurYear, NONE) }

SpelledStores ==
    { WithIds(l) : l \in UNION { [1..k -> SpelledAwards] : k \in 0..MaxAwards } }

CaseInit ==
    /\ awards \in { st \in SpelledStores : UniqueGameKeys(st) }
    /\ announcementQueue = <<>>
    /\ nextId = Len(awards) + 1
    /\ ReadIdle
    /\ PollIdle
    /\ ForceIdle
    /\ MaintIdle
    /\ CallIdle

SpelledLeaderboard == RunGetYearlyLeaderboard

CaseNext == SpelledLeaderboard

SpecCase == CaseInit /\ [][CaseNext]_vars

\* the leaderboard points of the year's records of a user under any spelling
FoldedPoints(store, user) ==
    SumOfPairs({ <<i, calculatePoints(store[i].awards)>> : i \in YearDocs(store, user) })

\* C26: the yearly leaderboard has at most one entry per lower-cased username, and an
\* entry's points are the sum over all the year's records whose raUsername is that
\* name in any letter case.
C26_CaseFoldedEntries ==
    aggOut.kind = "getYearlyLeaderboard" =>
        LET out == aggOut.value
        IN  /\ \A p, q \in 1..Len(out) :
                   p # q => toLowerCase(out[p].username) # toLowerCase(out[q].username)
            /\ \A p \in 1..Len(out) :
                   out[p].totalPoints
                       = FoldedPoints(awards, toLowerCase(out[p].username))
            /\ \A u \in YearUsers(awards) :
                   FoldedPoints(awards, u) > 0 =>
                       \E p \in 1..Len(out) : toLowerCase(out[p].username) = u

\* C26 witness: records of 'amy' and of 'Amy' have been summed into one entry of
\* 11 points, the only entry of that user
C26_Witness ==
    /\ aggOut.kind = "getYearlyLeaderboard"
    /\ \E i, j \in 1..Len(awards) :
           awards[i].raUsername = "amy" /\ awards[j].raUsername = "Amy"
    /\ \E p \in 1..Len(aggOut.value) :
           /\ toLowerCase(aggOut.value[p].username) = "amy"
           /\ aggOut.value[p].totalPoints = 11
           /\ aggOut.value[p].mastered = 1

(***************************************************************************)
(* Properties of the errors raised in the handlers (SpecMaint)             *)
(***************************************************************************)

\* the handlers a tick of a started job may run, slots and poll ticks permitting
TickRuns(trigger) ==
    CASE trigger = "achievementCheck" -> ENABLED AchievementCheck
      [] trigger = "activeUsersUpdate" -> ENABLED ActiveUsersUpdate
      [] trigger = "dailyCleanup" -> ENABLED DailyCleanup
      [] trigger = "weeklyMaintenance" -> ENABLED WeeklyMaintenance
      [] trigger = "monthlyRollover" -> ENABLED MonthlyRollover
      [] OTHER -> ENABLED ServiceMonitor

\* C21: an error raised in a scheduled job's handler ends in that handler's catch: the
\* step in which the handler logs it frees the handler's invocation, leaves every job
\* started that was started and the scheduler initialized as it was, and after it the
\* next tick of the same trigger and of every other started trigger runs its handler.
C21_HandlerErrorsContained ==
    /\ [][lastEnded'.failed # "none" =>
             /\ startedJobs' = startedJobs
             /\ initialized' = initialized
             /\ jobScheduled' = jobScheduled
             /\ \A i \in Invocations :
                    handlers'[i] # handlers[i] =>
                        /\ handlers[i].trigger = lastEnded'.trigger
                        /\ handlers'[i] = NoHandler]_vars
    /\ [](lastEnded.failed # "none" =>
             \A t \in startedJobs :
                 (FreeSlots # {} /\ triggersFired < MaxPollTicks) => TickRuns(t))

\* C21 witness: the weeklyMaintenance handler has logged the failure of its
\* updateActiveUsers; all six jobs are still started and no handler is in progress
C21_Witness ==
    /\ lastEnded.trigger = "weeklyMaintenance"
    /\ lastEnded.failed = "updateActiveUsers"
    /\ startedJobs = AllJobs
    /\ FreeSlots = Invocations
    /\ initialized

(***************************************************************************)
(* SpecLife: the methods of the scheduler that start and stop it.  Each    *)
(* action is one job of the event loop: a call runs to its return, its     *)
(* throw or its await, and a suspended call runs on from the settling of   *)
(* what it awaits.                                                         *)
(***************************************************************************)

\* this.jobs in insertion order, the order startAll and stopAll visit it in
JobOrder == <<"achievementCheck", "activeUsersUpdate", "dailyCleanup",
              "weeklyMaintenance", "monthlyRollover", "serviceMonitor">>

\* the jobs a loop over this.jobs has dealt with when its throwAt-th call of job.start()
\* or job.stop() throws (all of them when throwAt = 0: no call throws); a call that
\* throws has not changed the status of its task
JobsBefore(throwAt) ==
    { JobOrder[k] : k \in 1..(IF throwAt = 0 THEN Len(JobOrder) ELSE throwAt - 1) }

\* the positions drawn for a throwing job.start() or job.stop()
ThrowAt == {0, 1, 4}

\* the job names drawn for startJob and stopJob
LifeJobNames == {"achievementCheck", "monthlyRollover", "unknownJob"}

\* the lowest free call slot
FreeCallSlots == { c \in CallSlots : calls[c] = NoPending }
FreeCallSlot == CHOOSE c \in FreeCallSlots : \A d \in FreeCallSlots : c <= d

\* a call suspended at an await
Pending(op, arg, pc) == [NoPending EXCEPT !.op = op, !.arg = arg, !.pc = pc]

\* a call that returned, and a call that threw, from the await named (or from none)
Returned(op, arg, value, awaited) ==
    [NoCall EXCEPT !.op = op, !.arg = arg, !.returned = value, !.awaited = awaited]
Threw(op, arg, error, awaited) ==
    [NoCall EXCEPT !.op = op, !.arg = arg, !.threw = TRUE, !.failed = error,
                   !.awaited = awaited]

\* what the methods that start and stop the scheduler leave alone
LifeOthers == <<awardVars, readVars, forceVars, isChecking, cyclesInFlight, cycleOwner,
                triggersFired, cyclesStarted, droppedTriggers, runJobResult,
                activeUsers, lastUserChecks, lastActiveUpdate, handlers, lastFired,
                lastRead, lastEnded>>

\* the cron tasks started: this.jobs by status, and the status of achievementCheck
Started(jobs) ==
    /\ startedJobs' = jobs
    /\ jobScheduled' = ("achievementCheck" \in jobs)

\* initialize calling achievementService.initialize() whether initialized or not
initializeCall_again(clientReady) ==
    /\ (~ clientReady) \/ FreeCallSlots # {}
    /\ IF ~ clientReady
       THEN /\ lastCall' = Threw("initialize", "", "Discord client not ready", "none")
            /\ calls' = calls
       ELSE /\ calls' = [calls EXCEPT ![FreeCallSlot] =
                            Pending("initialize", "", "awaitServiceInitialize")]
            /\ lastCall' = NoCall
    /\ UNCHANGED <<initialized, startedJobs, jobScheduled, LifeOthers>>

\* Scheduler.initialize, lines 312-326: true at once when already initialized, the
\* error rethrown when the client is not ready, else the call of
\* achievementService.initialize(), which it awaits
initializeCall(clientReady) ==
    /\ initialized \/ (~ clientReady) \/ FreeCallSlots # {}
    /\ IF initialized
       THEN /\ lastCall' = Returned("initialize", "", "true", "none")
            /\ calls' = calls
       ELSE IF ~ clientReady
       THEN /\ lastCall' = Threw("initialize", "", "Discord client not ready", "none")
            /\ calls' = calls
       ELSE /\ calls' = [calls EXCEPT ![FreeCallSlot] =
                            Pending("initialize", "", "awaitServiceInitialize")]
            /\ lastCall' = NoCall
    /\ UNCHANGED <<initialized, startedJobs, jobScheduled, LifeOthers>>

\* Scheduler.initialize, lines 327-339: achievementService.initialize() has settled; the
\* flag is set and true returned, or the catch rethrows the error
initializeSettles(c, ok) ==
    /\ calls[c].op = "initialize"
    /\ calls' = [calls EXCEPT ![c] = NoPending]
    /\ initialized' = IF ok THEN TRUE ELSE initialized
    /\ lastCall' = IF ok
                   THEN Returned("initialize", "", "true", "awaitServiceInitialize")
                   ELSE Threw("initialize", "", "achievementService.initialize",
                              "awaitServiceInitialize")
    /\ UNCHANGED <<startedJobs, jobScheduled, LifeOthers>>

\* startAll starting the jobs without the test of this.initialized
startAllCall_unchecked(throwAt) ==
    /\ Started(startedJobs \cup JobsBefore(throwAt))
    /\ lastCall' = IF throwAt = 0
                   THEN Returned("startAll", "", "undefined", "none")
                   ELSE Threw("startAll", "", "job.start", "none")
    /\ UNCHANGED <<initialized, calls, LifeOthers>>

\* Scheduler.startAll: the throw when not initialized, else job.start() on each job in
\* turn; the error of a throwing job.start() is rethrown by the catch
startAllCall(throwAt) ==
    /\ IF ~ initialized
       THEN /\ lastCall' = Threw("startAll", "",
                                 "Scheduler must be initialized before starting jobs",
                                 "none")
            /\ Started(startedJobs)
       ELSE /\ Started(startedJobs \cup JobsBefore(throwAt))
            /\ lastCall' = IF throwAt = 0
                           THEN Returned("startAll", "", "undefined", "none")
                           ELSE Threw("startAll", "", "job.start", "none")
    /\ UNCHANGED <<initialized, calls, LifeOthers>>

\* Scheduler.stopAll: job.stop() on each job in turn; the catch logs the error of a
\* throwing job.stop() and the jobs after it are left as they were
stopAllCall(throwAt) ==
    /\ Started(startedJobs \ JobsBefore(throwAt))
    /\ lastCall' = Returned("stopAll", "", "undefined", "none")
    /\ UNCHANGED <<initialized, calls, LifeOthers>>

\* Scheduler.startJob
startJobCall(jobName) ==
    /\ IF jobName \in AllJobs
       THEN /\ Started(startedJobs \cup {jobName})
            /\ lastCall' = Returned("startJob", jobName, "true", "none")
       ELSE /\ Started(startedJobs)
            /\ lastCall' = Returned("startJob", jobName, "false", "none")
    /\ UNCHANGED <<initialized, calls, LifeOthers>>

\* Scheduler.stopJob: a throwing job.stop() is not caught
stopJobCall(jobName, stopThrows) ==
    /\ IF jobName \notin AllJobs
       THEN /\ Started(startedJobs)
            /\ lastCall' = Returned("stopJob", jobName, "false", "none")
       ELSE IF stopThrows
       THEN /\ Started(startedJobs)
            /\ lastCall' = Threw("stopJob", jobName, "job.stop", "none")
       ELSE /\ Started(startedJobs \ {jobName})
            /\ lastCall' = Returned("stopJob", jobName, "true", "none")
    /\ UNCHANGED <<initialized, calls, LifeOthers>>

\* Scheduler.shutdown, lines 436-440: stopAll, then the call of
\* achievementService.shutdown(), which it awaits
shutdownCall(throwAt) ==
    /\ FreeCallSlots # {}
    /\ Started(startedJobs \ JobsBefore(throwAt))
    /\ calls' = [calls EXCEPT ![FreeCallSlot] =
                    Pending("shutdown", "", "awaitServiceShutdown")]
    /\ lastCall' = NoCall
    /\ UNCHANGED <<initialized, LifeOthers>>

\* Scheduler.shutdown, lines 441-444: achievementService.shutdown() has settled; the
\* flag is lowered, or the rejection leaves shutdown by throwing
shutdownSettles(c, ok) ==
    /\ calls[c].op = "shutdown"
    /\ calls' = [calls EXCEPT ![c] = NoPending]
    /\ initialized' = IF ok THEN FALSE ELSE initialized
    /\ lastCall' = IF ok
                   THEN Returned("shutdown", "", "undefined", "awaitServiceShutdown")
                   ELSE Threw("shutdown", "", "achievementService.shutdown",
                              "awaitServiceShutdown")
    /\ UNCHANGED <<startedJobs, jobScheduled, LifeOthers>>

LifeInit == AwardIdle /\ ReadIdle /\ PollIdle /\ ForceIdle /\ MaintIdle /\ CallIdle

LifeInitialize == \E clientReady \in BOOLEAN : initializeCall(clientReady)

LifeInitializeSettles == \E c \in CallSlots, ok \in BOOLEAN : initializeSettles(c, ok)

LifeStartAll == \E throwAt \in ThrowAt : startAllCall(throwAt)

LifeStopAll == \E throwAt \in ThrowAt : stopAllCall(throwAt)

LifeStartJob == \E jobName \in LifeJobNames : startJobCall(jobName)

LifeStopJob ==
    \E jobName \in LifeJobNames, stopThrows \in BOOLEAN : stopJobCall(jobName, stopThrows)

LifeShutdown == \E throwAt \in ThrowAt : shutdownCall(throwAt)

LifeShutdownSettles == \E c \in CallSlots, ok \in BOOLEAN : shutdownSettles(c, ok)

LifeNext ==
    \/ LifeInitialize
    \/ LifeInitializeSettles
    \/ LifeStartAll
    \/ LifeStopAll
    \/ LifeStartJob
    \/ LifeStopJob
    \/ LifeShutdown
    \/ LifeShutdownSettles

SpecLife == LifeInit /\ [][LifeNext]_vars

(***************************************************************************)
(* Properties of the methods that start and stop the scheduler (SpecLife)  *)
(***************************************************************************)

\* C22: startAll throws 'Scheduler must be initialized before starting jobs' and starts
\* no job whenever the scheduler is not initialized; it is not initialized once a
\* shutdown has returned, and becomes initialized only by an initialize that succeeds.
C22_StartAllNeedsInitialized ==
    [][/\ lastCall'.op = "startAll" =>
             IF ~ initialized
             THEN /\ lastCall'.threw
                  /\ lastCall'.failed
                         = "Scheduler must be initialized before starting jobs"
                  /\ startedJobs' = startedJobs
                  /\ jobScheduled' = jobScheduled
             ELSE lastCall'.failed
                      # "Scheduler must be initialized before starting jobs"
       /\ (lastCall'.op = "shutdown" /\ ~ lastCall'.threw) => ~ initialized'
       /\ (~ initialized /\ initialized') =>
             (lastCall'.op = "initialize" /\ lastCall'.returned = "true")]_vars

\* C22 witness: startAll has thrown on a scheduler that is not initialized, and no job
\* is started
C22_Witness ==
    /\ lastCall.op = "startAll"
    /\ lastCall.failed = "Scheduler must be initialized before starting jobs"
    /\ ~ initialized
    /\ startedJobs = {}

\* C23: initialize is idempotent and all-or-nothing: called on an initialized scheduler
\* it returns true at once and makes no call of achievementService.initialize(), which
\* is only ever called with the flag down; a call that returns has returned true with
\* the flag up; a call that throws (client not ready, or achievementService.initialize()
\* failed) has rethrown the error and has not set the flag.
C23_InitializeIdempotent ==
    [][/\ (initialized /\ lastCall'.op = "initialize" /\ lastCall'.awaited = "none") =>
             /\ lastCall'.returned = "true"
             /\ calls' = calls
             /\ initialized'
       /\ \A c \in CallSlots :
             (calls[c].op # "initialize" /\ calls'[c].op = "initialize") => ~ initialized
       /\ (lastCall'.op = "initialize" /\ ~ lastCall'.threw) =>
             (lastCall'.returned = "true" /\ initialized')
       /\ (lastCall'.op = "initialize" /\ lastCall'.threw) =>
             /\ initialized' = initialized
             /\ lastCall'.awaited = "none" => ~ initialized']_vars

\* C23 witness: initialize was called on an initialized scheduler and returned true
\* without a call of achievementService.initialize()
C23_Witness ==
    /\ lastCall.op = "initialize"
    /\ lastCall.awaited = "none"
    /\ lastCall.returned = "true"
    /\ initialized
    /\ \A c \in CallSlots : calls[c] = NoPending

\* C27 as claimed: a job is started only if the scheduler's initialized flag is true.
C27_Claimed_StartedOnlyIfInitialized == startedJobs # {} => initialized

(***************************************************************************)
(* SpecRun: runJobNow, the manual run of a job, next to the state of the   *)
(* achievement service and of the jobs it may touch.  Each action is one   *)
(* job of the event loop; a runJobNow suspended at its await runs on when  *)
(* what it awaits settles.                                                 *)
(***************************************************************************)

\* the Check Cache, the ACTIVE set and lastActiveUpdate of the achievement service
ServiceState ==
    [checks |-> lastUserChecks, active |-> activeUsers, lastUpdate |-> lastActiveUpdate]

\* the job names drawn for runJobNow
RunJobNames == AllJobs \cup {"unknownJob"}

\* runJobNow as its caller sees it: true from the end of the try, false from the catch;
\* before is the service state the call found (kept for the jobs that write it),
\* undisturbed tells that the service state it left at its await was still there when
\* it ran on
RunReturned(jobName, failed, awaited, before, undisturbed) ==
    [NoCall EXCEPT !.op = "runJobNow", !.arg = jobName,
                   !.returned = IF failed = "none" THEN "true" ELSE "false",
                   !.failed = failed, !.awaited = awaited, !.before = before,
                   !.undisturbed = undisturbed]

\* a runJobNow suspended at an await, with the service state it found and left
RunSuspended(jobName, pc, left) ==
    [Pending("runJobNow", jobName, pc) EXCEPT !.before = ServiceState, !.left = left]

\* the calls of runJobNow suspended at their await of updateActiveUsers
UpdateRuns ==
    Cardinality({ c \in CallSlots : calls[c].op = "runJobNow" /\ calls[c].pc = "awaitUpdate" })

\* what runJobNow leaves alone whatever the job
RunOthers == <<awardVars, readVars, forceVars>>

\* the switch running the clears of the monthlyRollover handler for that name
runJobNowDefault_runsRollover(jobName) ==
    /\ IF jobName = "monthlyRollover"
       THEN /\ resetTracking
            /\ lastCall' = RunReturned(jobName, "none", "none", ServiceState, TRUE)
       ELSE /\ lastCall' = RunReturned(jobName,
                                       "not found or cannot be run manually", "none",
                                       ServiceState, TRUE)
            /\ UNCHANGED <<lastUserChecks, activeUsers, lastActiveUpdate>>
    /\ UNCHANGED <<calls, pollVars>>

\* Scheduler.runJobNow, line 413: the default of the switch throws, the catch returns
\* false
runJobNowDefault(jobName) ==
    /\ lastCall' = RunReturned(jobName, "not found or cannot be run manually", "none",
                               ServiceState, TRUE)
    /\ UNCHANGED <<lastUserChecks, activeUsers, lastActiveUpdate, calls, pollVars>>

\* Scheduler.runJobNow, lines 393-410, to its await or, when it gets to none, to its
\* return: the switch on the job name
runJobNowCall(jobName, cacheThrows) ==
    /\ Quiet
    /\ UNCHANGED <<initialized, startedJobs, handlers, RunOthers>>
    /\ CASE jobName = "achievementCheck" ->
              /\ triggersFired < MaxPollTicks
              /\ isChecking \/ FreeCallSlots # {}
              /\ checkAchievements("runJobNow")
              /\ jobScheduled' = jobScheduled
              /\ UNCHANGED <<lastUserChecks, activeUsers, lastActiveUpdate>>
              /\ IF isChecking
                 THEN /\ lastCall' = RunReturned(jobName, "none", "awaitCycle",
                                                 NoService, TRUE)
                      /\ calls' = calls
                 ELSE /\ calls' = [calls EXCEPT ![FreeCallSlot] =
                                      Pending("runJobNow", jobName, "awaitCycle")]
                      /\ lastCall' = NoCall
         [] jobName = "activeUsersUpdate" ->
              /\ FreeCallSlots # {} /\ UpdateRuns < MaxUpdateRuns
              /\ calls' = [calls EXCEPT ![FreeCallSlot] =
                              RunSuspended(jobName, "awaitUpdate", ServiceState)]
              /\ lastCall' = NoCall
              /\ UNCHANGED <<lastUserChecks, activeUsers, lastActiveUpdate, pollVars>>
         [] jobName \in {"dailyCleanup", "weeklyMaintenance"} ->
              /\ cacheThrows \/ (FreeCallSlots # {} /\ UpdateRuns < MaxUpdateRuns)
              /\ IF cacheThrows
                 THEN /\ lastCall' = RunReturned(jobName, "clearCache", "none",
                                                 ServiceState, TRUE)
                      /\ UNCHANGED <<lastUserChecks, calls>>
                 ELSE /\ lastUserChecks' = IF jobName = "dailyCleanup"
                                           THEN clearCache(lastUserChecks)
                                           ELSE {}
                      /\ calls' = [calls EXCEPT ![FreeCallSlot] =
                                      RunSuspended(jobName, "awaitUpdate",
                                          [ServiceState EXCEPT
                                              !.checks = lastUserChecks'])]
                      /\ lastCall' = NoCall
              /\ UNCHANGED <<activeUsers, lastActiveUpdate, pollVars>>
         [] OTHER -> runJobNowDefault(jobName)

\* Scheduler.runJobNow, lines 401-419: the updateActiveUsers it awaits has settled
runJobNowUpdateSettles(c, ok, refreshed) ==
    /\ calls[c].op = "runJobNow"
    /\ calls[c].pc = "awaitUpdate"
    /\ updateActiveUsers(ok, refreshed)
    /\ calls' = [calls EXCEPT ![c] = NoPending]
    /\ lastCall' = RunReturned(calls[c].arg, IF ok THEN "none" ELSE "updateActiveUsers",
                               "awaitUpdate", calls[c].before,
                               ServiceState = calls[c].left)
    /\ Quiet
    /\ UNCHANGED <<initialized, startedJobs, handlers, lastUserChecks, pollVars,
                   RunOthers>>

\* Scheduler.runJobNow, lines 398-419: the poll cycle it awaits has ended
runJobNowCycleEnds(c, threw) ==
    /\ calls[c].op = "runJobNow"
    /\ calls[c].pc = "awaitCycle"
    /\ checkAchievementsEnds(threw)
    /\ jobScheduled' = jobScheduled
    /\ calls' = [calls EXCEPT ![c] = NoPending]
    /\ lastCall' = RunReturned(calls[c].arg,
                               IF threw THEN "checkAchievements" ELSE "none",
                               "awaitCycle", calls[c].before, TRUE)
    /\ Quiet
    /\ UNCHANGED <<initialized, startedJobs, handlers, activeUsers, lastUserChecks,
                   lastActiveUpdate, RunOthers>>

\* a job in which no method of the scheduler returns
NoReturn == calls' = calls /\ lastCall' = NoCall

RunInit == AwardIdle /\ ReadIdle /\ PollIdle /\ ForceIdle /\ MaintIdle /\ CallIdle

RunInitialize ==
    \E serviceOk \in BOOLEAN : initialize(serviceOk) /\ NoReturn /\ UNCHANGED RunOthers

RunStartAll == startAll /\ NoReturn /\ UNCHANGED RunOthers

RunStopAll == stopAll /\ NoReturn /\ UNCHANGED RunOthers

RunPollChecksUser ==
    \E u \in KnownUsers : pollChecksUser(u) /\ NoReturn /\ UNCHANGED RunOthers

RunJobNowCall ==
    \E jobName \in RunJobNames, cacheThrows \in BOOLEAN :
        runJobNowCall(jobName, cacheThrows)

RunJobNowUpdateSettles ==
    \E c \in CallSlots, ok \in BOOLEAN, refreshed \in RefreshedSets :
        runJobNowUpdateSettles(c, ok, refreshed)

RunJobNowCycleEnds ==
    \E c \in CallSlots, threw \in BOOLEAN : runJobNowCycleEnds(c, threw)

RunNext ==
    \/ RunInitialize
    \/ RunStartAll
    \/ RunStopAll
    \/ RunPollChecksUser
    \/ RunJobNowCall
    \/ RunJobNowUpdateSettles
    \/ RunJobNowCycleEnds

SpecRun == RunInit /\ [][RunNext]_vars

(***************************************************************************)
(* Properties of runJobNow (SpecRun)                                       *)
(***************************************************************************)

\* the job names the switch of runJobNow has a case for
ManualJobs == {"achievementCheck", "activeUsersUpdate", "dailyCleanup",
               "weeklyMaintenance"}

\* C24: runJobNow never throws: it returns true when the actions of the named job
\* completed and false when one of them failed; for a name the switch has no case for,
\* monthlyRollover and serviceMonitor included, it returns false and leaves the Check
\* Cache, the ACTIVE set, lastActiveUpdate and the state of every job as they were.
C24_RunJobNowNeverThrows ==
    [][lastCall'.op = "runJobNow" =>
          /\ ~ lastCall'.threw
          /\ lastCall'.returned \in {"true", "false"}
          /\ lastCall'.returned = "true" <=> lastCall'.failed = "none"
          /\ lastCall'.arg \notin ManualJobs =>
                /\ lastCall'.returned = "false"
                /\ lastUserChecks' = lastUserChecks
                /\ activeUsers' = activeUsers
                /\ lastActiveUpdate' = lastActiveUpdate
                /\ startedJobs' = startedJobs
                /\ jobScheduled' = jobScheduled
                /\ handlers' = handlers
                /\ calls' = calls
                /\ isChecking' = isChecking
                /\ cyclesInFlight' = cyclesInFlight]_vars

\* C24 witness: runJobNow('monthlyRollover') has returned false on a scheduler whose
\* jobs are all started, with the Check Cache and the ACTIVE set still holding members
C24_Witness ==
    /\ lastCall.op = "runJobNow"
    /\ lastCall.arg = "monthlyRollover"
    /\ lastCall.returned = "false"
    /\ lastUserChecks # {}
    /\ activeUsers # {}
    /\ startedJobs = AllJobs

\* the cron handler of dailyCleanup or of weeklyMaintenance run on its own from service
\* state s (scheduler.js lines 216-260): the service state it ends with when the call
\* named by failed threw (none when "none") and updateActiveUsers, when it succeeded,
\* computed the set refreshed
cronHandlerLeaves(job, s, failed, refreshed) ==
    IF failed = "clearCache"
    THEN s
    ELSE LET cleared ==
                 IF job = "weeklyMaintenance"
                 THEN [checks |-> {}, active |-> {}, lastUpdate |-> "null"]
                 ELSE [s EXCEPT !.checks = clearCache(s.checks)]
         IN  IF failed = "updateActiveUsers"
             THEN cleared
             ELSE [cleared EXCEPT !.active = refreshed, !.lastUpdate = "set"]

\* C28 as claimed: a runJobNow of dailyCleanup or weeklyMaintenance that ran with nothing
\* else writing the service state ends with the Check Cache, the ACTIVE set and
\* lastActiveUpdate the cron handler of that name ends with from the same state and
\* the same collaborator results.
C28_Claimed_ManualRunMatchesCron ==
    (/\ lastCall.op = "runJobNow"
     /\ lastCall.arg \in {"dailyCleanup", "weeklyMaintenance"}
     /\ lastCall.undisturbed) =>
        ServiceState = cronHandlerLeaves(lastCall.arg, lastCall.before, lastCall.failed,
                                         activeUsers)

====
